---------------------------- MODULE Spec2Model ----------------------------
(***************************************************************************)
(* A model of the core of verity (governance-as-code SQL build engine):    *)
(*   - GraphSolver::plan_execution      (domain/graph/dag.rs)              *)
(*   - run_pipeline                     (application/pipeline.rs)          *)
(*   - Materializer::materialize        (application/materialization.rs)   *)
(*   - ZScoreCheck                      (domain/compliance/zscore.rs)      *)
(*   - PolicyRewriter::apply_masking    (domain/governance/rewriter.rs)    *)
(*   - LineageAnalyzer::analyze         (application/lineage.rs)           *)
(* Each subsystem has its own specification (SpecDag, SpecPipe, ...); the  *)
(* variables of the other subsystems stay at their idle values.            *)
(***************************************************************************)
EXTENDS Integers, Sequences, FiniteSets, TLC

(***************************************************************************)
(* Bounds of the model.                                                    *)
(***************************************************************************)
\* total number of ref entries in a manifest handed to plan_execution
MaxRefs == 4
\* number of observations ingested into one MetricState
MaxObs == 4
\* number of materialize calls on one connector
MaxDdl == 2
\* number of declared columns of the node handed to apply_masking
MaxCols == 2
\* total number of ref entries / of declared columns in a manifest handed to analyze
MaxLinRefs == 2
MaxLinCols == 3
\* total number of refs and columns in the manifest handed to analyze
MaxLinItems == 4
\* total number of refs in the manifest handed to run_pipeline
MaxPipeRefs == 2
\* the width of the row counts, in bits
CountBits == 8
\* at most this many post-flight checks on a node
MaxChecks == 2
\* at most this many clean targets, of at most this many components each
MaxTargets == 2
MaxComps == 2
\* at most this many models in a schema file, of versions 0..MaxVersion
MaxModels == 3
MaxVersion == 3
\* at most this many transitions asked of one LifecycleStatus
MaxChain == 4
\* at most this many parts in a compound identifier or a table name
MaxParts == 2
\* at most this many bytes in the content of a file
MaxBytes == 2

\* The keys of Manifest.nodes, and one name that is not a node.
NodeNames == {"a", "b", "c"}
Ghost == "x"
Names == NodeNames \cup {Ghost}

VARIABLES
    \* ---- GraphSolver::plan_execution ----
    refs,            \* manifest.nodes[n].refs, a Vec<String> per node
    in_degree,       \* HashMap<&str, usize>
    adj_list,        \* HashMap<&str, Vec<&str>>
    queue,           \* VecDeque<&str>
    layers,          \* Vec<Vec<&str>>
    total_resolved,  \* usize
    dagpc,           \* position in plan_execution
    dagres,          \* the Result returned
    \* ---- ZScoreCheck ----
    zstate,          \* the MetricState the caller holds (Option<MetricState>)
    zprev,           \* previous_state of the last validate_and_update call
    zx,              \* current_value of the last call
    zres,            \* the Result of the last call
    zthreshold,      \* threshold of the last call
    zbefore,         \* current_value, threshold and Result of the call before the last
    \* ---- Materializer::materialize ----
    executed,        \* the statements the connector received (MockConnector.executed_queries)
    matret,          \* the Result of the last materialize call
    \* ---- PolicyRewriter::apply_masking ----
    rwcols,          \* node.columns of the node being rewritten
    rwout,           \* the SQL returned, as a syntax tree
    rwagain,         \* the SQL returned when rwout is rewritten once more
    \* ---- LineageAnalyzer::analyze ----
    lman,            \* the Manifest analysed: refs, columns, security_level per node
    lreport,         \* the LineageReport returned
    \* ---- run_pipeline ----
    manifest,        \* the Manifest loaded: refs and resource_type per node
    select,          \* Option<String>
    layers_to_run,   \* Vec<Vec<String>>
    layer_i,         \* the layer the for loop is at (1-based)
    next_future,     \* how many futures of the layer the stream has pulled
    task,            \* per node: where its future is
    results,         \* what stream.collect() gathers, in completion order
    initial_state,   \* per node: the entry load_state_store returned
    state_store,     \* per node: the entry of the HashMap state_store
    state_file,      \* per node: the entry in target/state.json
    state_saved,     \* state.json was written by this run
    store,           \* the models whose DDL reached the connector
    pipe_pc,         \* position in run_pipeline
    run_result,      \* the Result returned
    \* ---- RowCountCheck::validate ----
    current_count,   \* u64
    previous_count,  \* Option<u64>
    row_threshold,   \* f64, as an exact rational
    overflow_checks, \* the build panics on integer overflow (debug) or wraps (release)
    rowres,          \* the Result returned
    \* ---- check_compliance ----
    compliance,      \* node.compliance, Option<ComplianceConfig>
    current_rows,    \* u64
    prev_rows,       \* Option<u64>
    strict_mode,     \* bool
    comp_overflow,   \* the build panics on integer overflow (debug) or wraps (release)
    complog,         \* the lines written to stderr and stdout
    compres,         \* the Result returned
    \* ---- execute_node ----
    connector_rows,  \* what query_scalar answers for the relation of the node
    exec_prev,       \* ctx.prev_row_count
    exec_compliance, \* node.compliance
    exec_strict,     \* ctx.strict_mode
    exec_overflow,   \* the build panics on integer overflow (debug) or wraps (release)
    exec_pc,         \* position in execute_node
    exec_effects,    \* the side effects so far, in order
    exec_rows,       \* current_rows
    exec_res,        \* the Result returned
    exec_stored,     \* the row_count of the node in state_store
    \* ---- clean_project ----
    clean_targets,   \* config.clean_targets
    targets,         \* the targets the loop runs over
    target_i,        \* the target the for loop is at (1-based)
    fs_paths,        \* the paths that exist on the file system, resolved
    removed,         \* the paths removed so far, resolved
    clean_pc,        \* position in clean_project
    clean_res,       \* the Result returned
    \* ---- create_versioned_model (schema.rs) ----
    schema_file,     \* models of the schema file, in file order
    schema_call,     \* arguments of the last call
    schema_res,      \* result of the last call
    \* ---- LifecycleStatus (manifest.rs) ----
    status,          \* the current LifecycleStatus
    chain,           \* statuses reached so far, oldest first
    last_try,        \* last transition asked for and the answer
    \* ---- GovernanceRule (governance_rule.rs, governance_optimizer.rs) ----
    plan_columns,    \* the columns of the node, with their policies
    plan_salt,       \* whether the policy set carries a salt
    column_policies, \* GovernancePolicySet.column_policies, Absent where no entry
    plan_exprs,      \* the projection after the rule, empty before
    plan_pc,         \* pairs, rule or done
    \* ---- UniversalQuoter (quoter.rs) ----
    ast,             \* the parsed statement SELECT item FROM table
    quoted,          \* the statement after process_statement
    quote_pc,        \* parsed or quoted
    \* ---- atomic_write (fs.rs) ----
    aw_previous,     \* the file at the target path before the call
    aw_content,      \* the content to write
    target_file,     \* the file at the target path
    temp_file,       \* the temporary file in the same directory
    observed,        \* what a concurrent reader last read at the target path
    aw_pc,           \* position in atomic_write
    \* ---- ZScoreCheck::update_state alone (zscore.rs) ----
    wstate,          \* the MetricState after the values ingested so far
    wseen            \* the values ingested, oldest first

dagVars == <<refs, in_degree, adj_list, queue, layers, total_resolved, dagpc, dagres>>

zVars == <<zstate, zprev, zx, zres, zthreshold, zbefore>>

matVars == <<executed, matret>>

rwVars == <<rwcols, rwout, rwagain>>

linVars == <<lman, lreport>>

pipeVars == <<manifest, select, layers_to_run, layer_i, next_future, task, results,
              initial_state, state_store, state_file, state_saved, store, pipe_pc,
              run_result>>

rowVars == <<current_count, previous_count, row_threshold, overflow_checks, rowres>>

compVars == <<compliance, current_rows, prev_rows, strict_mode, comp_overflow, complog, compres>>

execVars == <<connector_rows, exec_prev, exec_compliance, exec_strict, exec_overflow, exec_pc, exec_effects, exec_rows, exec_res, exec_stored>>

cleanVars == <<clean_targets, targets, target_i, fs_paths, removed, clean_pc, clean_res>>

schemaVars == <<schema_file, schema_call, schema_res>>

lifeVars == <<status, chain, last_try>>

planVars == <<plan_columns, plan_salt, column_policies, plan_exprs, plan_pc>>

quoteVars == <<ast, quoted, quote_pc>>

awVars == <<aw_previous, aw_content, target_file, temp_file, observed, aw_pc>>

welfVars == <<wstate, wseen>>

vars == <<dagVars, zVars, matVars, rwVars, linVars, pipeVars, rowVars, compVars, execVars, cleanVars, schemaVars, lifeVars, planVars, quoteVars, awVars, welfVars>>

\* the variables each subsystem leaves alone
notDag == <<zVars, matVars, rwVars, linVars, pipeVars, rowVars, compVars, execVars, cleanVars, schemaVars, lifeVars, planVars, quoteVars, awVars, welfVars>>
notZ == <<dagVars, matVars, rwVars, linVars, pipeVars, rowVars, compVars, execVars, cleanVars, schemaVars, lifeVars, planVars, quoteVars, awVars, welfVars>>
notMat == <<dagVars, zVars, rwVars, linVars, pipeVars, rowVars, compVars, execVars, cleanVars, schemaVars, lifeVars, planVars, quoteVars, awVars, welfVars>>
notRw == <<dagVars, zVars, matVars, linVars, pipeVars, rowVars, compVars, execVars, cleanVars, schemaVars, lifeVars, planVars, quoteVars, awVars, welfVars>>
notLin == <<dagVars, zVars, matVars, rwVars, pipeVars, rowVars, compVars, execVars, cleanVars, schemaVars, lifeVars, planVars, quoteVars, awVars, welfVars>>
notPipe == <<dagVars, zVars, matVars, rwVars, linVars, rowVars, compVars, execVars, cleanVars, schemaVars, lifeVars, planVars, quoteVars, awVars, welfVars>>
notRow == <<dagVars, zVars, matVars, rwVars, linVars, pipeVars, compVars, execVars, cleanVars, schemaVars, lifeVars, planVars, quoteVars, awVars, welfVars>>
notComp == <<dagVars, zVars, matVars, rwVars, linVars, pipeVars, rowVars, execVars, cleanVars, schemaVars, lifeVars, planVars, quoteVars, awVars, welfVars>>
notExec == <<dagVars, zVars, matVars, rwVars, linVars, pipeVars, rowVars, compVars, cleanVars, schemaVars, lifeVars, planVars, quoteVars, awVars, welfVars>>
notClean == <<dagVars, zVars, matVars, rwVars, linVars, pipeVars, rowVars, compVars, execVars, schemaVars, lifeVars, planVars, quoteVars, awVars, welfVars>>
notSchema == <<dagVars, zVars, matVars, rwVars, linVars, pipeVars, rowVars, compVars, execVars, cleanVars, lifeVars, planVars, quoteVars, awVars, welfVars>>
notLife == <<dagVars, zVars, matVars, rwVars, linVars, pipeVars, rowVars, compVars, execVars, cleanVars, schemaVars, planVars, quoteVars, awVars, welfVars>>
notPlan == <<dagVars, zVars, matVars, rwVars, linVars, pipeVars, rowVars, compVars, execVars, cleanVars, schemaVars, lifeVars, quoteVars, awVars, welfVars>>
notQuote == <<dagVars, zVars, matVars, rwVars, linVars, pipeVars, rowVars, compVars, execVars, cleanVars, schemaVars, lifeVars, planVars, awVars, welfVars>>
notAw == <<dagVars, zVars, matVars, rwVars, linVars, pipeVars, rowVars, compVars, execVars, cleanVars, schemaVars, lifeVars, planVars, quoteVars, welfVars>>
notWelf == <<dagVars, zVars, matVars, rwVars, linVars, pipeVars, rowVars, compVars, execVars, cleanVars, schemaVars, lifeVars, planVars, quoteVars, awVars>>

(***************************************************************************)
(* Helpers.                                                                *)
(***************************************************************************)
SeqToSet(s) == {s[i] : i \in 1..Len(s)}

Perms(S) == {p \in [1..Cardinality(S) -> S] : \A i, j \in 1..Cardinality(S) : p[i] = p[j] => i = j}

Contains(s, x) == \E i \in 1..Len(s) : s[i] = x

RECURSIVE SumLen(_, _)
SumLen(f, S) == IF S = {} THEN 0
                ELSE LET n == CHOOSE n \in S : TRUE IN Len(f[n]) + SumLen(f, S \ {n})

RECURSIVE Flatten(_)
Flatten(ls) == IF ls = <<>> THEN <<>> ELSE Head(ls) \o Flatten(Tail(ls))

\* All assignments of ref lists to the nodes of S with at most k entries in total.
RECURSIVE RefMaps(_, _)
RefMaps(S, k) ==
    IF S = {} THEN {<<>>}
    ELSE LET n == CHOOSE n \in S : TRUE IN
         UNION {UNION {{(n :> r) @@ rest : rest \in RefMaps(S \ {n}, k - len)}
                        : r \in [1..len -> Names]}
                 : len \in 0..k}

(***************************************************************************)
(* GraphSolver::plan_execution (dag.rs 12-97).                             *)
(***************************************************************************)
NoResult == [kind |-> "none", msg |-> "", layers |-> <<>>]
ErrCircular(m) == [kind |-> "Err", msg |-> m, layers |-> <<>>]
OkLayers(ls) == [kind |-> "Ok", msg |-> "", layers |-> ls]

\* dag.rs 19-22: every known node starts with in-degree 0 and no neighbour
InitDegree == [n \in NodeNames |-> 0]
InitAdj == [n \in NodeNames |-> <<>>]

\* dag.rs 32: the parent must be a key of adj_list
KnownMut(adj, parent) == TRUE
Known(adj, parent) == parent \in DOMAIN adj

\* dag.rs 28-48: the refs of one node, in order; stops at the first dangling one
RECURSIVE AddRefs(_, _, _)
AddRefs(g, current_node, deps) ==
    IF deps = <<>> \/ g.err THEN g
    ELSE LET parent_node == Head(deps) IN
         IF ~Known(g.adj_list, parent_node)
         THEN [g EXCEPT !.err = TRUE]
         ELSE AddRefs([g EXCEPT
                          !.adj_list = IF parent_node \in DOMAIN g.adj_list
                                       THEN [g.adj_list EXCEPT ![parent_node] = Append(@, current_node)]
                                       ELSE g.adj_list,
                          !.in_degree = [g.in_degree EXCEPT ![current_node] = @ + 1]],
                      current_node, Tail(deps))

\* dag.rs 25-49: the nodes in the HashMap's iteration order
RECURSIVE GraphConstruction(_, _, _)
GraphConstruction(g, rf, order) ==
    IF order = <<>> \/ g.err THEN g
    ELSE GraphConstruction(AddRefs(g, Head(order), rf[Head(order)]), rf, Tail(order))

\* dag.rs 56-60: the zero-degree nodes in in_degree's iteration order
InitialQueue(deg, order) == SelectSeq(order, LAMBDA n : deg[n] = 0)

\* dag.rs 77: a neighbour is queued when its last dependency is resolved
ReadyMut(degree) == TRUE
Ready(degree) == degree = 0

\* dag.rs 74-81: decrement each neighbour, queue it at zero
RECURSIVE Relax(_, _)
Relax(st, neighbors) ==
    IF neighbors = <<>> THEN st
    ELSE LET nb == Head(neighbors)
             d  == st.in_degree[nb] - 1
         IN Relax([st EXCEPT !.in_degree = [@ EXCEPT ![nb] = d],
                             !.queue = IF Ready(d) THEN Append(@, nb) ELSE @],
                  Tail(neighbors))

\* dag.rs 68-84: drain layer_size entries of the queue into current_layer
RECURSIVE DrainLayer(_, _, _)
DrainLayer(st, adj, k) ==
    IF k = 0 \/ st.queue = <<>> THEN st
    ELSE LET current == Head(st.queue)
             popped == [st EXCEPT !.queue = Tail(@),
                                  !.current_layer = Append(@, current),
                                  !.total_resolved = @ + 1]
         IN DrainLayer(Relax(popped, adj[current]), adj, k - 1)

\* dag.rs 89: cycle detection
UnresolvedMut(total, capacity) == total > capacity
Unresolved(total, capacity) == total # capacity

(***************************************************************************)
(* plan_execution as a state machine.                                      *)
(***************************************************************************)
DagIdle ==
    /\ refs = [n \in NodeNames |-> <<>>]
    /\ in_degree = InitDegree
    /\ adj_list = InitAdj
    /\ queue = <<>>
    /\ layers = <<>>
    /\ total_resolved = 0
    /\ dagpc = "idle"
    /\ dagres = NoResult

DagStart ==
    /\ refs \in RefMaps(NodeNames, MaxRefs)
    /\ in_degree = InitDegree
    /\ adj_list = InitAdj
    /\ queue = <<>>
    /\ layers = <<>>
    /\ total_resolved = 0
    /\ dagpc = "build"
    /\ dagres = NoResult

\* dag.rs 24-49
BuildGraph ==
    /\ dagpc = "build"
    /\ \E order \in Perms(NodeNames) :
         LET g == GraphConstruction([err |-> FALSE, in_degree |-> in_degree, adj_list |-> adj_list],
                                    refs, order)
         IN IF g.err
            THEN /\ dagres' = ErrCircular("Dangling Reference")
                 /\ dagpc' = "done"
                 /\ in_degree' = g.in_degree
                 /\ adj_list' = g.adj_list
            ELSE /\ in_degree' = g.in_degree
                 /\ adj_list' = g.adj_list
                 /\ dagpc' = "seed"
                 /\ UNCHANGED dagres
    /\ UNCHANGED <<refs, queue, layers, total_resolved>>
    /\ UNCHANGED notDag

\* dag.rs 52-62
SeedQueue ==
    /\ dagpc = "seed"
    /\ \E order \in Perms(NodeNames) : queue' = InitialQueue(in_degree, order)
    /\ dagpc' = "kahn"
    /\ UNCHANGED <<refs, in_degree, adj_list, layers, total_resolved, dagres>>
    /\ UNCHANGED notDag

\* dag.rs 64-86: one iteration of the while loop
KahnLayer ==
    /\ dagpc = "kahn"
    /\ queue # <<>>
    /\ LET st == DrainLayer([queue |-> queue, in_degree |-> in_degree,
                             current_layer |-> <<>>, total_resolved |-> total_resolved],
                            adj_list, Len(queue))
       IN /\ queue' = st.queue
          /\ in_degree' = st.in_degree
          /\ total_resolved' = st.total_resolved
          /\ layers' = Append(layers, st.current_layer)
    /\ UNCHANGED <<refs, adj_list, dagpc, dagres>>
    /\ UNCHANGED notDag

\* dag.rs 88-96
CycleDetection ==
    /\ dagpc = "kahn"
    /\ queue = <<>>
    /\ dagres' = IF Unresolved(total_resolved, Cardinality(NodeNames))
                 THEN ErrCircular("Graph contains a cycle")
                 ELSE OkLayers(layers)
    /\ dagpc' = "done"
    /\ UNCHANGED <<refs, in_degree, adj_list, queue, layers, total_resolved>>
    /\ UNCHANGED notDag

(***************************************************************************)
(* ZScoreCheck (zscore.rs).  f64 values are modelled as exact rationals    *)
(* [num, den] in lowest terms with den > 0; sqrt is not computed: the two  *)
(* comparisons on stddev are stated on the variance (squared).             *)
(***************************************************************************)
Abs(i) == IF i < 0 THEN -i ELSE i

RECURSIVE GCD(_, _)
GCD(m, n) == IF n = 0 THEN m ELSE GCD(n, m % n)

Rat(n, d) == LET g == GCD(Abs(n), Abs(d))
                 sg == IF d < 0 THEN -1 ELSE 1
             IN [num |-> sg * (n \div g), den |-> sg * (d \div g)]
RInt(i) == [num |-> i, den |-> 1]
RAdd(p, q) == Rat(p.num * q.den + q.num * p.den, p.den * q.den)
RSub(p, q) == Rat(p.num * q.den - q.num * p.den, p.den * q.den)
RMul(p, q) == Rat(p.num * q.num, p.den * q.den)
RDivInt(p, k) == Rat(p.num, p.den * k)
RLess(p, q) == p.num * q.den < q.num * p.den

\* the observations and the thresholds handed to validate_and_update
Observations == {0, 1, 2, 20}
Thresholds == {1, 3}

\* zscore.rs 40: 1e-9 = 1 / EpsInv
EpsInv == 1000000000

\* anomaly.rs 31-36: MetricState::default()
DefaultMetricState == [mean |-> RInt(0), variance |-> RInt(0), count |-> 0]
NoState == [none |-> TRUE]
SomeState(st) == [none |-> FALSE, st |-> st]
UnwrapOrDefault(o) == IF o.none THEN DefaultMetricState ELSE o.st

\* zscore.rs 39-40: stddev > 1e-9, i.e. variance > 1 / EpsInv^2
StdDevAboveEps(variance) ==
    variance.num > 0 /\ variance.num > (variance.den \div EpsInv) \div EpsInv

\* zscore.rs 41-42: |x - mean| / stddev > threshold, squared (threshold >= 0)
ZScoreExceeds(x, st, threshold) ==
    LET d == RSub(RInt(x), st.mean)
    IN RLess(RMul(RInt(threshold * threshold), st.variance), RMul(d, d))

\* zscore.rs 28-54
ValidateMut(x, st, threshold) ==
    IF st.count < 1 THEN "NotEnoughHistory"
    ELSE IF StdDevAboveEps(st.variance) /\ ZScoreExceeds(x, st, threshold)
         THEN "AnomalyDetected"
         ELSE "Ok"

Validate(x, st, threshold) ==
    IF st.count < 2 THEN "NotEnoughHistory"
    ELSE IF StdDevAboveEps(st.variance) /\ ZScoreExceeds(x, st, threshold)
         THEN "AnomalyDetected"
         ELSE "Ok"

\* zscore.rs 58-73: Welford's update
UpdateStateMut(x, o) ==
    LET s == UnwrapOrDefault(o)
        count == s.count + 1
    IN IF count = 1
       THEN [mean |-> RInt(x), variance |-> RInt(0), count |-> count]
       ELSE LET old_mean == s.mean
                mean == RAdd(old_mean, RDivInt(RSub(RInt(x), old_mean), count))
                prev_m2 == RMul(s.variance, RInt(count - 1))
                new_m2 == RAdd(prev_m2, RMul(RSub(RInt(x), old_mean), RSub(RInt(x), old_mean)))
            IN [mean |-> mean, variance |-> RDivInt(new_m2, count), count |-> count]

UpdateState(x, o) ==
    LET s == UnwrapOrDefault(o)
        count == s.count + 1
    IN IF count = 1
       THEN [mean |-> RInt(x), variance |-> RInt(0), count |-> count]
       ELSE LET old_mean == s.mean
                mean == RAdd(old_mean, RDivInt(RSub(RInt(x), old_mean), count))
                prev_m2 == RMul(s.variance, RInt(count - 1))
                new_m2 == RAdd(prev_m2, RMul(RSub(RInt(x), old_mean), RSub(RInt(x), mean)))
            IN [mean |-> mean, variance |-> RDivInt(new_m2, count), count |-> count]

\* zscore.rs 83-86
ValidateOpt(x, o, threshold) ==
    IF o.none THEN "NotEnoughHistory" ELSE Validate(x, o.st, threshold)

\* zscore.rs 91-99: the state returned beside the result
NewStateMut(res, x, o) == UpdateState(x, o)
NewState(res, x, o) ==
    IF res \in {"Ok", "NotEnoughHistory"}
    THEN UpdateState(x, o)
    ELSE UnwrapOrDefault(o)

\* zscore.rs 77-82: the arguments of a call and its Result
Call(x, threshold, res) == [x |-> x, threshold |-> threshold, res |-> res]

ZIdle ==
    /\ zstate = NoState
    /\ zprev = NoState
    /\ zx = 0
    /\ zres = "none"
    /\ zthreshold = 1
    /\ zbefore = Call(0, 1, "none")

\* zscore.rs 77-102; the caller keeps the returned state (zscore.rs 155-157)
ValidateAndUpdate ==
    /\ UnwrapOrDefault(zstate).count < MaxObs
    /\ \E x \in Observations, threshold \in Thresholds :
         LET res == ValidateOpt(x, zstate, threshold)
         IN /\ zres' = res
            /\ zx' = x
            /\ zthreshold' = threshold
            /\ zbefore' = Call(zx, zthreshold, zres)
            /\ zprev' = zstate
            /\ zstate' = SomeState(NewState(res, x, zstate))
    /\ UNCHANGED notZ


(***************************************************************************)
(* Materializer::materialize (materialization.rs 11-89).                   *)
(***************************************************************************)
\* manifest.rs 69-74, and None for an unset NodeConfig.materialized
MaterializationTypes == {"View", "Table", "Ephemeral", "Incremental"}
MaterializedOptions == MaterializationTypes \cup {"None"}

\* materialization.rs 19-22: unwrap_or(&MaterializationType::View)
Strategy(materialized) == IF materialized = "None" THEN "View" ELSE materialized

\* materialization.rs 34-73: the DDL statement, "" when there is none
DdlQuery(strategy, is_protected, model_name) ==
    CASE strategy = "Table" /\ is_protected ->
            <<"CREATE TABLE IF NOT EXISTS ", model_name, " AS ", "sql">>
      [] strategy = "Table" /\ ~is_protected ->
            <<"CREATE OR REPLACE TABLE ", model_name, " AS ", "sql">>
      [] strategy = "View" /\ is_protected ->
            <<"CREATE VIEW IF NOT EXISTS ", model_name, " AS ", "sql">>
      [] strategy = "View" /\ ~is_protected ->
            <<"CREATE OR REPLACE VIEW ", model_name, " AS ", "sql">>
      [] strategy = "Incremental" ->
            <<"CREATE OR REPLACE TABLE ", model_name, " AS ", "sql">>
      [] OTHER -> <<>>

\* materialization.rs 88: format!("{:?}", strategy).to_lowercase()
StrategyName(strategy) ==
    CASE strategy = "Table" -> "table"
      [] strategy = "View" -> "view"
      [] strategy = "Incremental" -> "incremental"
      [] OTHER -> "ephemeral"

MatIdle ==
    /\ executed = <<>>
    /\ matret = "none"

\* materialization.rs 11-89: one call; the connector's execute may fail
Materialize ==
    /\ Len(executed) < MaxDdl
    /\ \E model_name \in NodeNames, materialized \in MaterializedOptions,
          is_protected \in BOOLEAN, db_ok \in BOOLEAN :
         LET strategy == Strategy(materialized)
             ddl_query == DdlQuery(strategy, is_protected, model_name)
         IN IF strategy = "Ephemeral"
            THEN /\ matret' = "Ok(ephemeral)"
                 /\ UNCHANGED executed
            ELSE /\ executed' = IF ddl_query # <<>>
                                THEN Append(executed, [query |-> ddl_query, protected |-> is_protected])
                                ELSE executed
                 /\ matret' = IF ddl_query # <<>> /\ ~db_ok
                              THEN "Err(InternalError)"
                              ELSE "Ok(" \o StrategyName(strategy) \o ")"
    /\ UNCHANGED notMat

(***************************************************************************)
(* PolicyRewriter::apply_masking (rewriter.rs 12-92).  SQL text is a       *)
(* sequence of tokens; the compiled SQL handed in is the token "sql".      *)
(***************************************************************************)
\* masking.rs 8-15, pii.rs 46-50; "None" is a column without policy
MaskingStrategies == {"Hash", "Redact", "Nullify", "Partial", "MaskEmail", "EntityPreserving"}
PolicyTypes == MaskingStrategies \cup {"Encryption", "Drop"}
PolicyOptions == PolicyTypes \cup {"None"}

ColumnNames == {"id", "email"}
ColumnInfos == [name : ColumnNames, policy : PolicyOptions]

\* all column lists of at most k columns
ColumnLists(k) == UNION {[1..n -> ColumnInfos] : n \in 0..k}

\* rewriter.rs 25-72: the projection of one column (Drop has none)
ColumnExpr(col) ==
    CASE col.policy = "Hash" ->
            <<"encode(sha256(CAST(", col.name, " AS VARCHAR)), 'hex') AS ", col.name>>
      [] col.policy = "Redact" -> <<"'REDACTED' AS ", col.name>>
      [] col.policy = "MaskEmail" ->
            <<"regexp_replace(", col.name, ", '(^.).*(@.*$)', '\\1****\\2') AS ", col.name>>
      [] col.policy = "Nullify" -> <<"NULL AS ", col.name>>
      [] col.policy = "Partial" ->
            <<"concat(left(CAST(", col.name, " AS VARCHAR), 2), '***') AS ", col.name>>
      [] col.policy = "EntityPreserving" ->
            <<"concat('[PRESERVED_', length(CAST(", col.name, " AS VARCHAR)), ']') AS ", col.name>>
      [] col.policy = "Encryption" ->
            <<"encode(sha256(CAST(", col.name, " AS VARCHAR)), 'hex') AS ", col.name>>
      [] OTHER -> <<col.name>>

\* rewriter.rs 68: a Drop column is skipped
Skipped(col) == col.policy = "Drop"

\* rewriter.rs 22-74: select_clause
RECURSIVE SelectClause(_)
SelectClause(columns) ==
    IF columns = <<>> THEN <<>>
    ELSE IF Skipped(Head(columns))
         THEN SelectClause(Tail(columns))
         ELSE <<ColumnExpr(Head(columns))>> \o SelectClause(Tail(columns))

\* rewriter.rs 12-92
ApplyMaskingToMut(sql, columns) ==
    IF columns = <<>> THEN [wrapped |-> FALSE, sql |-> sql]
    ELSE LET select_clause == SelectClause(columns) IN
         IF select_clause = <<>>
         THEN [wrapped |-> TRUE, cte |-> sql,
               select |-> <<<<"1 AS ", "_verity_empty">>>>, limit0 |-> TRUE]
         ELSE [wrapped |-> TRUE, cte |-> sql, select |-> select_clause, limit0 |-> FALSE]

ApplyMaskingTo(sql, columns) ==
    IF columns = <<>> THEN [wrapped |-> FALSE, sql |-> sql]
    ELSE IF ~\E i \in 1..Len(columns) : columns[i].policy # "None"
    THEN [wrapped |-> FALSE, sql |-> sql]
    ELSE LET select_clause == SelectClause(columns) IN
         IF select_clause = <<>>
         THEN [wrapped |-> TRUE, cte |-> sql,
               select |-> <<<<"1 AS ", "_verity_empty">>>>, limit0 |-> TRUE]
         ELSE [wrapped |-> TRUE, cte |-> sql, select |-> select_clause, limit0 |-> FALSE]

\* no SQL returned yet
NotRewritten == [wrapped |-> FALSE, sql |-> <<>>]

RwIdle ==
    /\ rwcols = <<>>
    /\ rwout = NotRewritten
    /\ rwagain = NotRewritten

RwStart ==
    /\ rwcols \in ColumnLists(MaxCols)
    /\ rwout = NotRewritten
    /\ rwagain = NotRewritten

\* rewriter.rs 12-92: one call on the compiled SQL
ApplyMasking ==
    /\ rwout = NotRewritten
    /\ rwout' = ApplyMaskingTo(<<"sql">>, rwcols)
    /\ UNCHANGED <<rwcols, rwagain>>
    /\ UNCHANGED notRw

\* rewriter.rs 84: select_clause.join(",\n    ")
RECURSIVE JoinExprs(_)
JoinExprs(select_clause) ==
    IF select_clause = <<>> THEN <<>>
    ELSE IF Len(select_clause) = 1 THEN Head(select_clause)
    ELSE Head(select_clause) \o <<", ">> \o JoinExprs(Tail(select_clause))

\* rewriter.rs 78-81 and 86-89: the text of the statement returned
SqlOf(out) ==
    IF ~out.wrapped THEN out.sql
    ELSE <<"WITH verity_governance_cte AS (">> \o out.cte \o <<") SELECT ">>
         \o JoinExprs(out.select)
         \o <<" FROM verity_governance_cte">>
         \o (IF out.limit0 THEN <<" LIMIT 0">> ELSE <<>>)

\* rewriter.rs 12-92: a second call, on the SQL the first call returned
ApplyMaskingAgain ==
    /\ rwout # NotRewritten
    /\ rwagain = NotRewritten
    /\ rwagain' = ApplyMaskingTo(SqlOf(rwout), rwcols)
    /\ UNCHANGED <<rwcols, rwout>>
    /\ UNCHANGED notRw

(***************************************************************************)
(* LineageAnalyzer::analyze (lineage.rs 128-248).                          *)
(***************************************************************************)
\* security_level.rs 12-18: Public 0 < Internal 1 < Confidential 2 < Restricted 3
Public == 0
Internal == 1
Confidential == 2
Restricted == 3

\* the levels and policies of the manifests analysed
LinLevels == {Internal, Restricted}
LinPolicies == {"None", "Hash"}
LinColumnInfos == [name : ColumnNames, policy : LinPolicies]

\* All assignments of column lists to the nodes of S with at most k columns in total.
RECURSIVE ColMaps(_, _)
ColMaps(S, k) ==
    IF S = {} THEN {<<>>}
    ELSE LET n == CHOOSE n \in S : TRUE IN
         UNION {UNION {{(n :> cs) @@ rest : rest \in ColMaps(S \ {n}, k - len)}
                        : cs \in [1..len -> LinColumnInfos]}
                 : len \in 0..k}

\* the orders the report is sorted by (lineage.rs 170, 238-240)
NodeOrder == <<"a", "b", "c">>
ColumnOrder == <<"*", "email", "id">>

\* lineage.rs 134-151: the columns of a node that carry a policy
PiiCols(man, n) == SelectSeq(man.columns[n], LAMBDA c : c.policy # "None")

\* lineage.rs 186-187: node.columns.iter().find(|c| c.name == *col_name)
FindColumn(columns, col_name) ==
    LET hits == {i \in 1..Len(columns) : columns[i].name = col_name}
    IN IF hits = {} THEN 0 ELSE CHOOSE i \in hits : \A j \in hits : i <= j

\* lineage.rs 189: the downstream column is secured when it has a policy
SecuredMut(col) == TRUE
Secured(col) == col.policy # "None"

\* lineage.rs 183-213: the violations of one edge for the upstream PII columns
RECURSIVE PiiViolations(_, _, _, _)
PiiViolations(man, name, ref_name, upstream_pii) ==
    IF upstream_pii = <<>> THEN <<>>
    ELSE LET up == Head(upstream_pii)
             k == FindColumn(man.columns[name], up.name)
             here == IF k # 0 /\ ~Secured(man.columns[name][k])
                     THEN <<[column |-> up.name, upstream_node |-> ref_name,
                             upstream_policy |-> up.policy, downstream_node |-> name]>>
                     ELSE <<>>
         IN here \o PiiViolations(man, name, ref_name, Tail(upstream_pii))

\* lineage.rs 216: the child is less restricted than its parent
DowngradeMut(child_level, parent_level) == child_level <= parent_level
Downgrade(child_level, parent_level) == child_level < parent_level

\* lineage.rs 215-227
LevelViolations(man, name, ref_name) ==
    IF Downgrade(man.level[name], man.level[ref_name])
    THEN <<[column |-> "*", upstream_node |-> ref_name,
            upstream_policy |-> man.level[ref_name], downstream_node |-> name]>>
    ELSE <<>>

\* lineage.rs 174-234: the violations one node's refs produce, in order
RECURSIVE RefViolations(_, _, _)
RefViolations(man, name, rs) ==
    IF rs = <<>> THEN <<>>
    ELSE LET ref_name == Head(rs)
             here == IF ref_name \notin DOMAIN man.refs
                     THEN <<>>
                     ELSE PiiViolations(man, name, ref_name, PiiCols(man, ref_name))
                          \o LevelViolations(man, name, ref_name)
         IN here \o RefViolations(man, name, Tail(rs))

\* lineage.rs 229-233, 238: the edges of one node
RECURSIVE RefEdges(_, _, _)
RefEdges(man, name, rs) ==
    IF rs = <<>> THEN <<>>
    ELSE (IF Head(rs) \in DOMAIN man.refs
          THEN <<[from |-> Head(rs), to |-> name]>> ELSE <<>>)
         \o RefEdges(man, name, Tail(rs))

\* lineage.rs 239-240: stable sort by (downstream_node, column)
RECURSIVE SortedViolations(_, _)
SortedViolations(man, order) ==
    IF order = <<>> THEN <<>>
    ELSE LET vs == RefViolations(man, Head(order), man.refs[Head(order)])
             byCol(c) == SelectSeq(vs, LAMBDA v : v.column = c)
         IN byCol(ColumnOrder[1]) \o byCol(ColumnOrder[2]) \o byCol(ColumnOrder[3])
            \o SortedViolations(man, Tail(order))

\* lineage.rs 173-235: the edges pushed, node by node
RECURSIVE PushedEdges(_, _)
PushedEdges(man, order) ==
    IF order = <<>> THEN <<>>
    ELSE RefEdges(man, Head(order), man.refs[Head(order)]) \o PushedEdges(man, Tail(order))

\* lineage.rs 238: sort by (from, to); the nodes are pushed in the order of `to`
RECURSIVE AllEdges(_, _)
AllEdges(man, order) ==
    IF order = <<>> THEN <<>>
    ELSE SelectSeq(PushedEdges(man, NodeOrder), LAMBDA e : e.from = Head(order))
         \o AllEdges(man, Tail(order))

\* lineage.rs 128-248
AnalyzeManifest(man) ==
    [done |-> TRUE, edges |-> AllEdges(man, NodeOrder),
     violations |-> SortedViolations(man, NodeOrder)]

NoReport == [done |-> FALSE, edges |-> <<>>, violations |-> <<>>]

LinIdle ==
    /\ lman = [refs |-> [n \in NodeNames |-> <<>>], columns |-> [n \in NodeNames |-> <<>>],
               level |-> [n \in NodeNames |-> Internal]]
    /\ lreport = NoReport

LinStart ==
    /\ \E r \in RefMaps(NodeNames, MaxLinRefs), cs \in ColMaps(NodeNames, MaxLinCols) :
         /\ SumLen(r, NodeNames) + SumLen(cs, NodeNames) <= MaxLinItems
         /\ \E lv \in [NodeNames -> LinLevels] :
              lman = [refs |-> r, columns |-> cs, level |-> lv]
    /\ lreport = NoReport

\* lineage.rs 128-248: one call
Analyze ==
    /\ ~lreport.done
    /\ lreport' = AnalyzeManifest(lman)
    /\ UNCHANGED lman
    /\ UNCHANGED notLin

(***************************************************************************)
(* run_pipeline (pipeline.rs 43-250).                                      *)
(***************************************************************************)
\* manifest.rs 49-54: the resource types of the manifests run
ResourceTypes == {"Model", "Source"}

\* pipeline.rs 50: select: Option<String>
NoSelect == [none |-> TRUE]
SomeSelect(s) == [none |-> FALSE, sel |-> s]
SelectOptions == {NoSelect} \cup {SomeSelect(s) : s \in {"c", Ghost}}

\* pipeline.rs 200: buffer_unordered(8)
BufferWidth == 8

\* pipeline.rs 51: Result<RunResult, VerityError>
NoRunResult == [kind |-> "none", error |-> "", success |-> FALSE]
FatalError(e) == [kind |-> "Err", error |-> e, success |-> FALSE]
OkRunResult == [kind |-> "Ok", error |-> "", success |-> TRUE]

\* dag.rs 64-86: the while loop, to the end
RECURSIVE KahnLoop(_, _)
KahnLoop(st, adj) ==
    IF st.queue = <<>> THEN st
    ELSE LET d == DrainLayer([st EXCEPT !.current_layer = <<>>], adj, Len(st.queue))
         IN KahnLoop([d EXCEPT !.layers = Append(@, d.current_layer)], adj)

\* dag.rs 12-97: one call; order and qorder are the iteration orders of
\* manifest.nodes and in_degree
PlanExecution(rf, order, qorder) ==
    LET g == GraphConstruction([err |-> FALSE, in_degree |-> InitDegree, adj_list |-> InitAdj],
                               rf, order)
    IN IF g.err THEN ErrCircular("Dangling Reference")
       ELSE LET st == KahnLoop([queue |-> InitialQueue(g.in_degree, qorder),
                                in_degree |-> g.in_degree, current_layer |-> <<>>,
                                total_resolved |-> 0, layers |-> <<>>], g.adj_list)
            IN IF Unresolved(st.total_resolved, Cardinality(NodeNames))
               THEN ErrCircular("Graph contains a cycle")
               ELSE OkLayers(st.layers)

\* pipeline.rs 120-130
LayersToRunMut(sel, execution_layers) ==
    IF ~sel.none
    THEN IF Contains(Flatten(execution_layers), sel.sel)
         THEN SelectSeq(execution_layers, LAMBDA l : TRUE) ELSE <<>>
    ELSE execution_layers

LayersToRun(sel, execution_layers) ==
    IF ~sel.none
    THEN IF Contains(Flatten(execution_layers), sel.sel) THEN << <<sel.sel>> >> ELSE <<>>
    ELSE execution_layers

\* a future that was polled and has not returned
InFlight(t) == t \in {"running", "materialized"}

\* pipeline.rs 201: stream.collect().await returns when every future of the
\* layer was pulled and has returned
LayerDoneMut(pulled, layer, t) == TRUE
LayerDone(pulled, layer, t) ==
    /\ pulled = Len(layer)
    /\ \A n \in NodeNames : ~InFlight(t[n])

\* pipeline.rs 203-223: the position of the first Err among the results, 0 if none
FirstErrMut(rs) == 0
FirstErr(rs) ==
    LET errs == {i \in 1..Len(rs) : rs[i].res = "Err"}
    IN IF errs = {} THEN 0 ELSE CHOOSE i \in errs : \A j \in errs : i <= j

\* pipeline.rs 205-214: the names inserted into state_store before the loop ends
Inserted(rs, first_err) ==
    {rs[i].node : i \in {j \in 1..Len(rs) : rs[j].res = "Ok" /\ (first_err = 0 \/ j < first_err)}}

\* pipeline.rs 443-450, 205-214: a node has no entry, the entry an earlier run
\* wrote, or the entry this run inserted
NoStateEntries == [n \in NodeNames |-> "none"]
EntriesOf(names) == [n \in NodeNames |-> IF n \in names THEN "old" ELSE "none"]

\* the state.json an earlier run left: none, one of a selected run, one of a
\* run that did not reach the last node, one of a full run
StateStores == {EntriesOf(names) : names \in {{}, {"c"}, {"a", "b"}, NodeNames}}

\* pipeline.rs 205-214: state_store.insert for each name of ins
InsertAll(st, ins) == [n \in NodeNames |-> IF n \in ins THEN "new" ELSE st[n]]

PipeIdle ==
    /\ manifest = [refs |-> [n \in NodeNames |-> <<>>],
                   resource_type |-> [n \in NodeNames |-> "Model"]]
    /\ select = NoSelect
    /\ layers_to_run = <<>>
    /\ layer_i = 0
    /\ next_future = 0
    /\ task = [n \in NodeNames |-> "pending"]
    /\ results = <<>>
    /\ initial_state = NoStateEntries
    /\ state_store = NoStateEntries
    /\ state_file = NoStateEntries
    /\ state_saved = FALSE
    /\ store = {}
    /\ pipe_pc = "idle"
    /\ run_result = NoRunResult

PipeStart ==
    /\ \E r \in RefMaps(NodeNames, MaxPipeRefs), rt \in [NodeNames -> ResourceTypes] :
         manifest = [refs |-> r, resource_type |-> rt]
    /\ select \in SelectOptions
    /\ layers_to_run = <<>>
    /\ layer_i = 0
    /\ next_future = 0
    /\ task = [n \in NodeNames |-> "pending"]
    /\ results = <<>>
    /\ initial_state \in StateStores
    /\ state_store = NoStateEntries
    /\ state_file = initial_state
    /\ state_saved = FALSE
    /\ store = {}
    /\ pipe_pc = "setup"
    /\ run_result = NoRunResult

\* pipeline.rs 60-103: target dir, state, manifest, sources; each may fail
Setup ==
    /\ pipe_pc = "setup"
    /\ \E ok \in BOOLEAN :
         IF ok THEN /\ pipe_pc' = "plan"
                    /\ state_store' = initial_state
                    /\ UNCHANGED run_result
               ELSE /\ pipe_pc' = "done"
                    /\ run_result' = FatalError("setup")
                    /\ UNCHANGED state_store
    /\ UNCHANGED <<manifest, select, layers_to_run, layer_i, next_future, task, results,
                   initial_state, state_file, state_saved, store>>
    /\ UNCHANGED notPipe

\* pipeline.rs 107-130
PlanLayers ==
    /\ pipe_pc = "plan"
    /\ \E order \in Perms(NodeNames), qorder \in Perms(NodeNames) :
         LET plan == PlanExecution(manifest.refs, order, qorder)
         IN IF plan.kind = "Err"
            THEN /\ run_result' = FatalError(plan.msg)
                 /\ pipe_pc' = "done"
                 /\ UNCHANGED <<layers_to_run, layer_i>>
            ELSE /\ layers_to_run' = LayersToRun(select, plan.layers)
                 /\ layer_i' = 1
                 /\ pipe_pc' = "loop"
                 /\ UNCHANGED run_result
    /\ UNCHANGED <<manifest, select, next_future, task, results,
                   initial_state, state_store, state_file, state_saved, store>>
    /\ UNCHANGED notPipe

\* pipeline.rs 155-160: the head of the for loop; past the last layer the loop ends
LayerBegin ==
    /\ pipe_pc = "loop"
    /\ IF layer_i > Len(layers_to_run)
       THEN /\ pipe_pc' = "save"
            /\ UNCHANGED <<layer_i, next_future, results>>
       ELSE IF layers_to_run[layer_i] = <<>>
            THEN /\ layer_i' = layer_i + 1
                 /\ UNCHANGED <<pipe_pc, next_future, results>>
            ELSE /\ pipe_pc' = "exec"
                 /\ next_future' = 0
                 /\ results' = <<>>
                 /\ UNCHANGED layer_i
    /\ UNCHANGED <<manifest, select, layers_to_run, task, initial_state, state_store,
                   state_file, state_saved, store, run_result>>
    /\ UNCHANGED notPipe

\* pipeline.rs 161-200: the stream pulls the next future of the layer and polls it;
\* a node that is no Model returns None at once (176-177, 193)
StartTask ==
    /\ pipe_pc = "exec"
    /\ next_future < Len(layers_to_run[layer_i])
    /\ Cardinality({n \in NodeNames : InFlight(task[n])}) < BufferWidth
    /\ LET node_name == layers_to_run[layer_i][next_future + 1]
       IN IF manifest.resource_type[node_name] = "Model"
          THEN /\ task' = [task EXCEPT ![node_name] = "running"]
               /\ UNCHANGED results
          ELSE /\ task' = [task EXCEPT ![node_name] = "skipped"]
               /\ results' = Append(results, [node |-> node_name, res |-> "None"])
    /\ next_future' = next_future + 1
    /\ UNCHANGED <<manifest, select, layers_to_run, layer_i, initial_state, state_store,
                   state_file, state_saved, store, pipe_pc, run_result>>
    /\ UNCHANGED notPipe

\* pipeline.rs 282-319: execute_node up to the return of Materializer::materialize
MaterializeNode ==
    /\ pipe_pc = "exec"
    /\ \E n \in NodeNames :
         /\ task[n] = "running"
         /\ task' = [task EXCEPT ![n] = "materialized"]
         /\ store' = store \cup {n}
    /\ UNCHANGED <<manifest, select, layers_to_run, layer_i, next_future, results,
                   initial_state, state_store, state_file, state_saved, pipe_pc, run_result>>
    /\ UNCHANGED notPipe

\* pipeline.rs 282-357: any `?` of execute_node returns Err
FailNode ==
    /\ pipe_pc = "exec"
    /\ \E n \in NodeNames :
         /\ InFlight(task[n])
         /\ task' = [task EXCEPT ![n] = "err"]
         /\ results' = Append(results, [node |-> n, res |-> "Err"])
    /\ UNCHANGED <<manifest, select, layers_to_run, layer_i, next_future, initial_state,
                   state_store, state_file, state_saved, store, pipe_pc, run_result>>
    /\ UNCHANGED notPipe

\* pipeline.rs 324-359: validation, compliance, Ok(current_rows)
FinishNode ==
    /\ pipe_pc = "exec"
    /\ \E n \in NodeNames :
         /\ task[n] = "materialized"
         /\ task' = [task EXCEPT ![n] = "ok"]
         /\ results' = Append(results, [node |-> n, res |-> "Ok"])
    /\ UNCHANGED <<manifest, select, layers_to_run, layer_i, next_future, initial_state,
                   state_store, state_file, state_saved, store, pipe_pc, run_result>>
    /\ UNCHANGED notPipe

\* pipeline.rs 201-225: collect, then the loop over the results
CollectLayer ==
    /\ pipe_pc = "exec"
    /\ LayerDone(next_future, layers_to_run[layer_i], task)
    /\ LET first_err == FirstErr(results)
       IN /\ state_store' = InsertAll(state_store, Inserted(results, first_err))
          /\ IF first_err # 0
             THEN /\ run_result' = FatalError("node")
                  /\ pipe_pc' = "done"
                  /\ UNCHANGED layer_i
             ELSE /\ layer_i' = layer_i + 1
                  /\ pipe_pc' = "loop"
                  /\ UNCHANGED run_result
    /\ UNCHANGED <<manifest, select, layers_to_run, next_future, task, results,
                   initial_state, state_file, state_saved, store>>
    /\ UNCHANGED notPipe

\* pipeline.rs 229-249: state.json, run_results.json, Ok(result)
Finalize ==
    /\ pipe_pc = "save"
    /\ \E outcome \in {"ok", "state_err", "results_err"} :
         /\ state_saved' = (outcome # "state_err")
         /\ state_file' = IF outcome # "state_err" THEN state_store ELSE state_file
         /\ run_result' = IF outcome = "ok" THEN OkRunResult ELSE FatalError(outcome)
    /\ pipe_pc' = "done"
    /\ UNCHANGED <<manifest, select, layers_to_run, layer_i, next_future, task, results,
                   initial_state, state_store, store>>
    /\ UNCHANGED notPipe

(***************************************************************************)
(* RowCountCheck::validate (anomaly.rs 47-76).  The 64-bit counts are      *)
(* modelled with CountBits bits: u64 is 0..CountModulus-1 and i64 is the   *)
(* two's complement range of the same width.                               *)
(***************************************************************************)
RECURSIVE Pow2(_)
Pow2(n) == IF n = 0 THEN 1 ELSE 2 * Pow2(n - 1)

\* 2^64 in the code
CountModulus == Pow2(CountBits)

\* pipeline.rs 433: Ok(100)
PlaceholderRows == 100
SignedMin == -(CountModulus \div 2)
SignedMax == (CountModulus \div 2) - 1

\* u64
Counts == 0..(CountModulus - 1)
NoCount == [none |-> TRUE, v |-> 0]
SomeCount(c) == [none |-> FALSE, v |-> c]
\* the counts handed to the checks: small ones, the placeholder of count_rows
\* and the ones around 2^63
CountSamples == {0, 1, 2, 3, PlaceholderRows, SignedMax, SignedMax + 1, CountModulus - 1}
CountOptions == {NoCount} \cup {SomeCount(c) : c \in CountSamples}

\* the thresholds handed to validate
RowThresholds == {Rat(1, 10), Rat(1, 2), Rat(1, 1), Rat(5, 1)}

\* anomaly.rs 60: `x as i64`
AsSigned(u) == IF u > SignedMax THEN u - CountModulus ELSE u

\* the value a wrapping i64 operation keeps
WrapSigned(x) == ((x - SignedMin) % CountModulus) + SignedMin

Overflows(x) == x < SignedMin \/ x > SignedMax

\* anomaly.rs 60: (current_count as i64 - prev as i64).abs(); an overflow
\* panics when the build checks overflows and wraps otherwise
SignedDiff(current, prev, checks) ==
    LET d == AsSigned(current) - AsSigned(prev)
        w == WrapSigned(d)
    IN IF Overflows(d) /\ checks THEN [panic |-> TRUE, v |-> 0]
       ELSE IF Overflows(Abs(w))
            THEN IF checks THEN [panic |-> TRUE, v |-> 0]
                 ELSE [panic |-> FALSE, v |-> WrapSigned(Abs(w))]
            ELSE [panic |-> FALSE, v |-> Abs(w)]

\* anomaly.rs 63-66: diff as f64 / prev as f64 > threshold
RatioExceeds(diff, prev, t) == diff * t.den > t.num * prev

\* anomaly.rs 47-76
RowCountValidate(current, previous, t, checks) ==
    IF previous.none THEN "NoHistory"
    ELSE IF previous.v = 0 THEN "Ok"
    ELSE LET diff == SignedDiff(current, previous.v, checks)
         IN IF diff.panic THEN "Panic"
            ELSE IF RatioExceeds(diff.v, previous.v, t) THEN "DeviationExceeded"
            ELSE "Ok"

RowIdle ==
    /\ current_count = 0
    /\ previous_count = NoCount
    /\ row_threshold = Rat(1, 10)
    /\ overflow_checks = FALSE
    /\ rowres = "none"

RowStart ==
    /\ current_count \in CountSamples
    /\ previous_count \in CountOptions
    /\ row_threshold \in RowThresholds
    /\ overflow_checks \in BOOLEAN
    /\ rowres = "none"

\* anomaly.rs 47-76: one call
ValidateRowCount ==
    /\ rowres = "none"
    /\ rowres' = RowCountValidate(current_count, previous_count, row_threshold, overflow_checks)
    /\ UNCHANGED <<current_count, previous_count, row_threshold, overflow_checks>>
    /\ UNCHANGED notRow

(***************************************************************************)
(* check_compliance (pipeline.rs 363-422).                                 *)
(***************************************************************************)
\* config.rs 12-19: check name, severity and the threshold parameter
CheckNames == {"row_count_anomaly", "freshness"}
Severities == {"error", "warning"}
NoParam == [none |-> TRUE, v |-> Rat(0, 1)]
SomeParam(t) == [none |-> FALSE, v |-> t]
ThresholdParams == {NoParam, SomeParam(Rat(1, 2))}
ComplianceChecks == [check : CheckNames, severity : Severities, threshold : ThresholdParams]

\* pipeline.rs 370-376: node.compliance and its post_flight, both optional
NoCompliance == [none |-> TRUE, post_flight_none |-> TRUE, post_flight |-> <<>>]
NoPostFlight == [none |-> FALSE, post_flight_none |-> TRUE, post_flight |-> <<>>]
PostFlight(cs) == [none |-> FALSE, post_flight_none |-> FALSE, post_flight |-> cs]
ComplianceOptions ==
    {NoCompliance, NoPostFlight}
    \cup {PostFlight(cs) : cs \in UNION {[1..k -> ComplianceChecks] : k \in 0..MaxChecks}}

\* pipeline.rs 381-385: the threshold parameter, 0.1 by default
ThresholdVal(check) == IF check.threshold.none THEN Rat(1, 10) ELSE check.threshold.v

\* pipeline.rs 400-401: an error-severity anomaly is fatal in strict mode
FatalMut(severity, strict) == severity = "error"
Fatal(severity, strict) == severity = "error" /\ strict

\* pipeline.rs 377-418: the loop over the checks from position i on
RECURSIVE RunChecks(_, _, _, _, _, _, _)
RunChecks(checks, i, current, prev, strict, ovf, log) ==
    IF i > Len(checks) THEN [res |-> "Ok", log |-> log]
    ELSE LET check == checks[i] IN
         IF check.check = "row_count_anomaly"
         THEN LET r == RowCountValidate(current, prev, ThresholdVal(check), ovf) IN
              IF r = "Panic" THEN [res |-> "Panic", log |-> log]
              ELSE IF r = "DeviationExceeded"
              THEN IF Fatal(check.severity, strict)
                   THEN [res |-> "ComplianceError", log |-> Append(log, [kind |-> "strict", check |-> i])]
                   ELSE RunChecks(checks, i + 1, current, prev, strict, ovf,
                                  Append(log, [kind |-> IF check.severity = "error"
                                                        THEN "bypass" ELSE "warning",
                                               check |-> i]))
              ELSE RunChecks(checks, i + 1, current, prev, strict, ovf, log)
         ELSE RunChecks(checks, i + 1, current, prev, strict, ovf,
                        Append(log, [kind |-> "unknown", check |-> i]))

\* pipeline.rs 363-422
CheckComplianceOf(c, current, prev, strict, ovf) ==
    IF c.none \/ c.post_flight_none THEN [res |-> "Ok", log |-> <<>>]
    ELSE RunChecks(c.post_flight, 1, current, prev, strict, ovf, <<>>)

CompIdle ==
    /\ compliance = NoCompliance
    /\ current_rows = 0
    /\ prev_rows = NoCount
    /\ strict_mode = FALSE
    /\ comp_overflow = FALSE
    /\ complog = <<>>
    /\ compres = "none"

CompStart ==
    /\ compliance \in ComplianceOptions
    /\ current_rows \in CountSamples
    /\ prev_rows \in CountOptions
    /\ strict_mode \in BOOLEAN
    /\ comp_overflow \in BOOLEAN
    /\ complog = <<>>
    /\ compres = "none"

\* pipeline.rs 363-422: one call
CheckCompliance ==
    /\ compres = "none"
    /\ LET out == CheckComplianceOf(compliance, current_rows, prev_rows, strict_mode, comp_overflow)
       IN /\ compres' = out.res
          /\ complog' = out.log
    /\ UNCHANGED <<compliance, current_rows, prev_rows, strict_mode, comp_overflow>>
    /\ UNCHANGED notComp

(***************************************************************************)
(* execute_node (pipeline.rs 271-360) and the insertion of its result into *)
(* state_store (pipeline.rs 203-215).                                      *)
(***************************************************************************)
NoExecResult == [kind |-> "none", rows |-> 0]
ExecOk(rows) == [kind |-> "Ok", rows |-> rows]
ExecErr == [kind |-> "Err", rows |-> 0]
ExecPanic == [kind |-> "Panic", rows |-> 0]

\* pipeline.rs 424-434: count_rows builds the query text and returns the
\* placeholder; the connector is not called
CountRows(rows_in_relation) == PlaceholderRows

ExecIdle ==
    /\ connector_rows = 0
    /\ exec_prev = NoCount
    /\ exec_compliance = NoCompliance
    /\ exec_strict = FALSE
    /\ exec_overflow = FALSE
    /\ exec_pc = "idle"
    /\ exec_effects = <<>>
    /\ exec_rows = 0
    /\ exec_res = NoExecResult
    /\ exec_stored = NoCount

\* pipeline.rs 167: prev_row_count is the row_count state_store holds for the node
ExecStart ==
    /\ connector_rows \in CountSamples
    /\ exec_prev \in CountOptions
    /\ exec_compliance \in ComplianceOptions
    /\ exec_strict \in BOOLEAN
    /\ exec_overflow \in BOOLEAN
    /\ exec_pc = "render"
    /\ exec_effects = <<>>
    /\ exec_rows = 0
    /\ exec_res = NoExecResult
    /\ exec_stored = exec_prev

\* one step of execute_node that ends with `?`: it has its effect and goes on,
\* or returns the error
ExecStepMut(from, to, effect) ==
    /\ exec_pc = from
    /\ \E ok \in BOOLEAN :
         /\ exec_pc' = to
         /\ exec_effects' = IF ok THEN Append(exec_effects, effect) ELSE exec_effects
         /\ UNCHANGED exec_res
    /\ UNCHANGED <<connector_rows, exec_prev, exec_compliance, exec_strict, exec_overflow,
                   exec_rows, exec_stored>>
    /\ UNCHANGED notExec

ExecStep(from, to, effect) ==
    /\ exec_pc = from
    /\ \E ok \in BOOLEAN :
         IF ok THEN /\ exec_pc' = to
                    /\ exec_effects' = Append(exec_effects, effect)
                    /\ UNCHANGED exec_res
               ELSE /\ exec_pc' = "returned"
                    /\ exec_res' = ExecErr
                    /\ UNCHANGED exec_effects
    /\ UNCHANGED <<connector_rows, exec_prev, exec_compliance, exec_strict, exec_overflow,
                   exec_rows, exec_stored>>
    /\ UNCHANGED notExec

\* pipeline.rs 279-282: A. render
Render == ExecStep("render", "write_compiled", "render")

\* pipeline.rs 292-300: compiled/<layer>/<name>.sql
WriteCompiled == ExecStep("write_compiled", "governance", "compiled.sql")

\* pipeline.rs 302-305: B. apply_masking
ApplyGovernance == ExecStep("governance", "write_run", "apply_masking")

\* pipeline.rs 307-315: run/<layer>/<name>.sql
WriteRun == ExecStep("write_run", "materialize", "run.sql")

\* pipeline.rs 317-321: C. materialize
ExecMaterialize == ExecStep("materialize", "tests", "materialize")

\* pipeline.rs 323-352: D. run_tests, then the schema update for undocumented columns
RunTests == ExecStep("tests", "count", "run_tests")

\* pipeline.rs 354-355: E. count_rows
ExecCountRows ==
    /\ exec_pc = "count"
    /\ exec_rows' = CountRows(connector_rows)
    /\ exec_effects' = Append(exec_effects, "count_rows")
    /\ exec_pc' = "compliance"
    /\ UNCHANGED <<connector_rows, exec_prev, exec_compliance, exec_strict, exec_overflow,
                   exec_res, exec_stored>>
    /\ UNCHANGED notExec

\* pipeline.rs 357-359: check_compliance, then Ok(current_rows)
ExecCompliance ==
    /\ exec_pc = "compliance"
    /\ LET out == CheckComplianceOf(exec_compliance, exec_rows, exec_prev, exec_strict,
                                    exec_overflow)
       IN exec_res' = CASE out.res = "Ok" -> ExecOk(exec_rows)
                        [] out.res = "Panic" -> ExecPanic
                        [] OTHER -> ExecErr
    /\ exec_effects' = Append(exec_effects, "check_compliance")
    /\ exec_pc' = "returned"
    /\ UNCHANGED <<connector_rows, exec_prev, exec_compliance, exec_strict, exec_overflow,
                   exec_rows, exec_stored>>
    /\ UNCHANGED notExec

\* pipeline.rs 203-215: run_pipeline inserts the rows of an Ok result
InsertState ==
    /\ exec_pc = "returned"
    /\ exec_res.kind = "Ok"
    /\ exec_stored' = SomeCount(exec_res.rows)
    /\ exec_pc' = "stored"
    /\ UNCHANGED <<connector_rows, exec_prev, exec_compliance, exec_strict, exec_overflow,
                   exec_effects, exec_rows, exec_res>>
    /\ UNCHANGED notExec

(***************************************************************************)
(* clean_project (clean.rs 9-41).  A path is the sequence of its           *)
(* components below the file system root.                                  *)
(***************************************************************************)
\* clean.rs 9: project_dir
ProjectDir == <<"proj">>

\* the file system before the call
InitialPaths ==
    {<<>>, <<"proj">>, <<"proj", "target">>, <<"proj", "out">>, <<"proj", "target", "out">>,
     <<"out">>, <<"target">>}

\* a configured target: relative, or absolute below / or below the project dir
PathComponents == {"target", "out", ".."}
TargetPaths ==
    [base : {"relative", "root", "project"},
     comps : UNION {[1..k -> PathComponents] : k \in 0..MaxComps}]
TargetLists == UNION {[1..k -> TargetPaths] : k \in 0..MaxTargets}

\* the components of the target as written in the configuration
Written(t) == IF t.base = "project" THEN ProjectDir \o t.comps ELSE t.comps

\* clean.rs 21: Path::join keeps the base for a relative path and is replaced
\* by an absolute one
Join(base, t) == IF t.base = "relative" THEN base \o t.comps ELSE Written(t)

\* clean.rs 24: Path::starts_with compares components, `..` included
StartsWith(path, base) ==
    /\ Len(path) >= Len(base)
    /\ \A i \in 1..Len(base) : path[i] = base[i]

\* what the operating system makes of a path: `..` goes up one directory
RECURSIVE Resolve(_, _)
Resolve(at, path) ==
    IF path = <<>> THEN at
    ELSE IF Head(path) = ".."
         THEN Resolve(IF at = <<>> THEN <<>> ELSE SubSeq(at, 1, Len(at) - 1), Tail(path))
         ELSE Resolve(Append(at, Head(path)), Tail(path))

\* clean.rs 28: full_path.exists(): every directory on the way exists
RECURSIVE Exists(_, _, _)
Exists(fs, at, path) ==
    IF at \notin fs THEN FALSE
    ELSE IF path = <<>> THEN TRUE
    ELSE Exists(fs, Resolve(at, <<Head(path)>>), Tail(path))

\* clean.rs 30, 33: the path and everything below it
Below(fs, p) == {q \in fs : StartsWith(q, p)}

\* clean.rs 14-18
TargetsOf(configured) ==
    IF configured = <<>> THEN <<[base |-> "relative", comps |-> <<"target">>]>> ELSE configured

CleanIdle ==
    /\ clean_targets = <<>>
    /\ targets = <<>>
    /\ target_i = 0
    /\ fs_paths = InitialPaths
    /\ removed = {}
    /\ clean_pc = "idle"
    /\ clean_res = "none"

CleanStart ==
    /\ clean_targets \in TargetLists
    /\ targets = <<>>
    /\ target_i = 0
    /\ fs_paths = InitialPaths
    /\ removed = {}
    /\ clean_pc = "load"
    /\ clean_res = "none"

\* clean.rs 12-18: load the configuration, default target
LoadTargets ==
    /\ clean_pc = "load"
    /\ \E ok \in BOOLEAN :
         IF ok THEN /\ targets' = TargetsOf(clean_targets)
                    /\ target_i' = 1
                    /\ clean_pc' = "loop"
                    /\ UNCHANGED clean_res
               ELSE /\ clean_res' = "Infrastructure"
                    /\ clean_pc' = "done"
                    /\ UNCHANGED <<targets, target_i>>
    /\ UNCHANGED <<clean_targets, fs_paths, removed>>
    /\ UNCHANGED notClean

\* clean.rs 20-38: one iteration of the loop
CleanTarget ==
    /\ clean_pc = "loop"
    /\ target_i <= Len(targets)
    /\ LET full_path == Join(ProjectDir, targets[target_i])
       IN IF ~StartsWith(full_path, ProjectDir)
          THEN /\ clean_res' = "UnsafePath"
               /\ clean_pc' = "done"
               /\ UNCHANGED <<target_i, fs_paths, removed>>
          ELSE IF Exists(fs_paths, <<>>, full_path)
               THEN \E ok \in BOOLEAN :
                      IF ok THEN /\ fs_paths' = fs_paths \ Below(fs_paths, Resolve(<<>>, full_path))
                                 /\ removed' = removed \cup Below(fs_paths, Resolve(<<>>, full_path))
                                 /\ target_i' = target_i + 1
                                 /\ UNCHANGED <<clean_pc, clean_res>>
                            ELSE /\ clean_res' = "Infrastructure"
                                 /\ clean_pc' = "done"
                                 /\ UNCHANGED <<target_i, fs_paths, removed>>
               ELSE /\ target_i' = target_i + 1
                    /\ UNCHANGED <<fs_paths, removed, clean_pc, clean_res>>
    /\ UNCHANGED <<clean_targets, targets>>
    /\ UNCHANGED notClean

\* clean.rs 40
CleanReturn ==
    /\ clean_pc = "loop"
    /\ target_i > Len(targets)
    /\ clean_res' = "Ok"
    /\ clean_pc' = "done"
    /\ UNCHANGED <<clean_targets, targets, target_i, fs_paths, removed>>
    /\ UNCHANGED notClean

(***************************************************************************)
(* LifecycleStatus (manifest.rs 78-102).                                   *)
(***************************************************************************)
\* manifest.rs 78-84: the variants, in declaration order
LifecycleOrder == <<"Provisioning", "Active", "Deprecated", "Erased">>

LifecycleStatuses == {LifecycleOrder[i] : i \in 1..Len(LifecycleOrder)}

\* manifest.rs 87-101: the arms of the match, in order
CanTransitionToMut(s, n) ==
    CASE s = n -> TRUE
      [] s = "Provisioning" /\ n = "Active" -> TRUE
      [] s = "Active" /\ n = "Deprecated" -> TRUE
      [] s = "Deprecated" /\ n = "Erased" -> TRUE
      [] s = "Active" /\ n = "Provisioning" -> TRUE
      [] OTHER -> FALSE

CanTransitionTo(s, n) ==
    CASE s = n -> TRUE
      [] s = "Provisioning" /\ n = "Active" -> TRUE
      [] s = "Active" /\ n = "Deprecated" -> TRUE
      [] s = "Deprecated" /\ n = "Erased" -> TRUE
      [] OTHER -> FALSE

NoTry == [asked |-> FALSE, from |-> "Provisioning", to |-> "Provisioning", allowed |-> FALSE]

LifeIdle ==
    /\ status = "Provisioning"
    /\ chain = <<>>
    /\ last_try = NoTry

\* a model in any status (manifest.rs 79: Provisioning is only the default)
LifeStart ==
    /\ status \in LifecycleStatuses
    /\ chain = <<status>>
    /\ last_try = NoTry

\* a caller asks for `next` and moves the status when can_transition_to allows it
Transition ==
    /\ chain # <<>>
    /\ Len(chain) <= MaxChain
    /\ \E next \in LifecycleStatuses :
         LET allowed == CanTransitionTo(status, next)
         IN /\ last_try' = [asked |-> TRUE, from |-> status, to |-> next, allowed |-> allowed]
            /\ status' = IF allowed THEN next ELSE status
            /\ chain' = IF allowed THEN Append(chain, next) ELSE chain
    /\ UNCHANGED notLife

(***************************************************************************)
(* create_versioned_model (schema.rs 143-239).  A name is the sequence of  *)
(* its pieces: "stg_v2" is <<"stg", "_v", "2">>.                           *)
(***************************************************************************)
\* base names handed to create_versioned_model; one has the shape of a versioned name
BaseNames == {<<"stg">>, <<"stg", "_v", "2">>, <<"dim">>}

Versions == 0..MaxVersion

\* schema.rs 165: "{}" of a u32
Digits == <<"0", "1", "2", "3", "4", "5", "6", "7", "8", "9">>

VersionText(v) == Digits[v + 1]

\* schema.rs 162-166: canonical_name
CanonicalName(base_name, target_version) ==
    IF target_version = 1 THEN base_name
    ELSE base_name \o <<"_v", VersionText(target_version)>>

\* str::starts_with
NameStartsWith(full_name, prefix) ==
    /\ Len(full_name) >= Len(prefix)
    /\ SubSeq(full_name, 1, Len(prefix)) = prefix

\* schema.rs 342-344
IsSameFamily(full_name, base_name) ==
    \/ full_name = base_name
    \/ NameStartsWith(full_name, base_name \o <<"_v">>)

\* schema.rs 149: requested_status
NoStatus == [none |-> TRUE, v |-> "Provisioning"]

SomeStatus(st) == [none |-> FALSE, v |-> st]

RequestedStatuses == {NoStatus} \cup {SomeStatus(st) : st \in LifecycleStatuses}

\* schema.rs 169: requested_status.unwrap_or(Provisioning)
InitialStatus(requested_status) ==
    IF requested_status.none THEN "Provisioning" ELSE requested_status.v

\* schema.rs 302-306: previous_models, in file order
PreviousModels(existing_models, base_name) ==
    SelectSeq(existing_models, LAMBDA m : IsSameFamily(m.model_name, base_name))

\* schema.rs 309: existing_versions
ExistingVersions(previous_models) ==
    {previous_models[i].version : i \in 1..Len(previous_models)}

\* schema.rs 310: the continuity guard
ContinuityBroken(existing_versions, target_version) ==
    target_version > 1 /\ (target_version - 1) \notin existing_versions

\* schema.rs 319: the duplication guard
Duplicated(existing_versions, target_version) == target_version \in existing_versions

\* schema.rs 327-337: the double-active guard
DoubleActive(previous_models, target_status) ==
    /\ target_status = "Active"
    /\ \E i \in 1..Len(previous_models) : previous_models[i].status = "Active"

\* schema.rs 296-340
ValidateLifecycleState(existing_models, base_name, target_version, target_status) ==
    LET previous_models == PreviousModels(existing_models, base_name)
        existing_versions == ExistingVersions(previous_models)
    IN CASE ContinuityBroken(existing_versions, target_version) -> "MissingVersion"
         [] Duplicated(existing_versions, target_version) -> "VersionExists"
         [] DoubleActive(previous_models, target_status) -> "LifecycleViolation"
         [] OTHER -> "Ok"

\* schema.rs 204-220: new_model
NewModel(base_name, target_version, initial_status) ==
    [model_name |-> CanonicalName(base_name, target_version),
     version |-> target_version,
     status |-> initial_status,
     latest |-> TRUE]

\* schema.rs 223-227: the older models of the family are no longer the latest
ClearLatest(models, base_name) ==
    [i \in 1..Len(models) |->
        IF IsSameFamily(models[i].model_name, base_name)
        THEN [models[i] EXCEPT !.latest = FALSE]
        ELSE models[i]]

NoCall == [called |-> FALSE, base_name |-> <<>>, target_version |-> 1,
           requested_status |-> NoStatus]

\* no schema file yet, or one without models (schema.rs 154-159)
SchemaIdle ==
    /\ schema_file = <<>>
    /\ schema_call = NoCall
    /\ schema_res = "None"

SchemaStart == SchemaIdle

\* schema.rs 143-239: one call, on a file of fewer than MaxModels models.  Once
\* the guards pass, an invalid policy pattern (189) and a failed write (231)
\* are the failures left
CreateVersionedModel ==
    /\ Len(schema_file) < MaxModels
    /\ \E base_name \in BaseNames, target_version \in Versions,
          requested_status \in RequestedStatuses :
         LET initial_status == InitialStatus(requested_status)
             guard == IF initial_status \in {"Deprecated", "Erased"}
                      THEN "BadInitialStatus"
                      ELSE ValidateLifecycleState(schema_file, base_name, target_version,
                                                  initial_status)
         IN \E res \in IF guard = "Ok" THEN {"Ok", "InvalidRegex", "Io"} ELSE {guard} :
              /\ schema_call' = [called |-> TRUE, base_name |-> base_name,
                                 target_version |-> target_version,
                                 requested_status |-> requested_status]
              /\ schema_res' = res
              /\ schema_file' =
                   IF res = "Ok"
                   THEN Append(ClearLatest(schema_file, base_name),
                               NewModel(base_name, target_version, initial_status))
                   ELSE schema_file
    /\ UNCHANGED notSchema

(***************************************************************************)
(* Plan-level governance: GovernancePolicySet::from_pairs                  *)
(* (governance_rule.rs 30-41) and GovernanceRule (governance_optimizer.rs  *)
(* 50-129) on the projection SELECT c1, c2, ... of the node's columns.     *)
(***************************************************************************)
PlanColumnNames == {"id", "Email"}

\* str::to_lowercase
ToLowercase(name) == IF name = "Email" THEN "email" ELSE name

PlanColumnInfos == [name : PlanColumnNames, policy : PolicyOptions]

PlanColumnLists(k) == UNION {[1..n -> PlanColumnInfos] : n \in 0..k}

\* pii.rs 33-41 and 53-58: PolicyType::as_str
AsStr(policy) ==
    CASE policy = "Hash" -> "hash"
      [] policy = "Redact" -> "redact"
      [] policy = "Nullify" -> "nullify"
      [] policy = "Partial" -> "partial"
      [] policy = "MaskEmail" -> "mask_email"
      [] policy = "EntityPreserving" -> "entity_preserving"
      [] policy = "Encryption" -> "encryption"
      [] policy = "Drop" -> "drop"

\* governance_rule.rs 68-76: MaskingPolicy::from_str; "Err" is Err(())
MaskingPolicyFromStr(s) ==
    CASE s = "hash" -> "Hash"
      [] s = "redact" -> "Redact"
      [] s = "mask_email" -> "MaskEmail"
      [] s = "pii_masking" -> "PiiMasking"
      [] OTHER -> "Err"

\* the (column_name, policy_string) pairs of the columns that carry a policy
PolicyPairs(columns) ==
    LET with_policy == SelectSeq(columns, LAMBDA c : c.policy # "None")
    IN [i \in 1..Len(with_policy) |->
          [col |-> with_policy[i].name, policy_str |-> AsStr(with_policy[i].policy)]]

NoPolicies == [n \in {ToLowercase(c) : c \in PlanColumnNames} |-> "Absent"]

\* governance_rule.rs 30-41: a pair that parses is inserted under the lowercased
\* name, a later pair replacing an earlier one; a pair that does not is skipped
RECURSIVE FromPairs(_, _)
FromPairs(pairs, policies) ==
    IF pairs = <<>> THEN policies
    ELSE LET policy == MaskingPolicyFromStr(Head(pairs).policy_str)
         IN FromPairs(Tail(pairs),
                      IF policy # "Err"
                      THEN [policies EXCEPT ![ToLowercase(Head(pairs).col)] = policy]
                      ELSE policies)

\* governance_optimizer.rs 80-93: digest(CAST(col AS Utf8) [concat salt], 'sha256')
BuildHashExpr(col_name, salted) ==
    IF salted
    THEN <<"digest(concat(CAST(", col_name, " AS Utf8), salt), 'sha256')">>
    ELSE <<"digest(CAST(", col_name, " AS Utf8), 'sha256')">>

\* governance_optimizer.rs 96-110
ApplyPolicy(col_name, alias_name, policy, salted) ==
    CASE policy \in {"Hash", "PiiMasking"} ->
            BuildHashExpr(col_name, salted) \o <<" AS ", alias_name>>
      [] policy = "Redact" -> <<"'REDACTED' AS ", alias_name>>
      [] policy = "MaskEmail" ->
            <<"regexp_replace(", col_name, ", '(^.).*(@.*$)', '\\1****\\2') AS ", alias_name>>

\* governance_optimizer.rs 50-59: a column of the projection
RewriteExpr(col_name, policies, salted) ==
    IF policies[ToLowercase(col_name)] # "Absent"
    THEN ApplyPolicy(col_name, col_name, policies[ToLowercase(col_name)], salted)
    ELSE <<col_name>>

PlanIdle ==
    /\ plan_columns = <<>>
    /\ plan_salt = FALSE
    /\ column_policies = NoPolicies
    /\ plan_exprs = <<>>
    /\ plan_pc = "idle"

PlanStart ==
    /\ plan_columns \in PlanColumnLists(MaxCols)
    /\ plan_salt = FALSE
    /\ column_policies = NoPolicies
    /\ plan_exprs = <<>>
    /\ plan_pc = "pairs"

\* governance_rule.rs 30-41: the set is built without salt (39)
BuildPolicySet ==
    /\ plan_pc = "pairs"
    /\ column_policies' = FromPairs(PolicyPairs(plan_columns), NoPolicies)
    /\ plan_salt' = FALSE
    /\ plan_pc' = "rule"
    /\ UNCHANGED <<plan_columns, plan_exprs>>
    /\ UNCHANGED notPlan

\* governance_optimizer.rs 113-142: analyze rewrites the projection, or returns
\* the plan as it is when the policy set is empty
AnalyzePlan ==
    /\ plan_pc = "rule"
    /\ plan_exprs' =
         [i \in 1..Len(plan_columns) |->
            IF \A n \in DOMAIN column_policies : column_policies[n] = "Absent"
            THEN <<plan_columns[i].name>>
            ELSE RewriteExpr(plan_columns[i].name, column_policies, plan_salt)]
    /\ plan_pc' = "done"
    /\ UNCHANGED <<plan_columns, plan_salt, column_policies>>
    /\ UNCHANGED notPlan

(***************************************************************************)
(* UniversalQuoter (quoter.rs 13-412) on the statement                     *)
(*     SELECT <item> [AS alias] FROM <table name> [AS alias].              *)
(* An identifier is its value and its quote_style: "none", or the quote    *)
(* character the parser found.                                             *)
(***************************************************************************)
\* the quote characters of GenericDialect, as names
QuoteStyles == {"none", "double", "backtick"}

Ident(value, quote_style) == [value |-> value, quote_style |-> quote_style]

Idents(values) == [value : values, quote_style : QuoteStyles]

ColumnIdents == Idents({"id", "COUNT"})
FunctionIdents == Idents({"COUNT", "f"})
TableIdents == Idents({"t"})
AliasIdents == Idents({"a"})

NoAlias == [none |-> TRUE, ident |-> Ident("a", "none")]

SomeAlias(ident) == [none |-> FALSE, ident |-> ident]

AliasOptions == {NoAlias} \cup {SomeAlias(i) : i \in AliasIdents}

\* Expr::Identifier, Expr::CompoundIdentifier, Expr::Function with one argument
Exprs ==
    [kind : {"Identifier"}, name : {<<>>}, idents : [1..1 -> ColumnIdents]]
    \cup UNION {[kind : {"CompoundIdentifier"}, name : {<<>>}, idents : [1..n -> ColumnIdents]] :
                  n \in 2..MaxParts}
    \cup [kind : {"Function"}, name : [1..1 -> FunctionIdents], idents : [1..1 -> ColumnIdents]]

ObjectNames == UNION {[1..n -> TableIdents] : n \in 1..MaxParts}

Statements ==
    [expr : Exprs, alias : AliasOptions, table : ObjectNames, table_alias : AliasOptions]

\* quoter.rs 210-240, the names that occur in the statements modelled
SqlBuiltinFunctions == {"COUNT", "SUM", "CAST", "UPPER"}

\* quoter.rs 246: to_uppercase, on the values modelled
ToUppercase(value) ==
    CASE value = "id" -> "ID"
      [] value = "f" -> "F"
      [] value = "t" -> "T"
      [] value = "a" -> "A"
      [] OTHER -> value

\* quoter.rs 106, 193, 266, 270: ident.quote_style = Some('"')
ForceQuote(ident) == [ident EXCEPT !.quote_style = "double"]

\* quoter.rs 243-260: one part of an object name
QuoteNamePart(ident) ==
    IF /\ ident.quote_style = "none"
       /\ ToUppercase(ident.value) \notin SqlBuiltinFunctions
       /\ ToUppercase(ident.value) # "*"
    THEN ForceQuote(ident)
    ELSE ident

\* quoter.rs 208-261
ProcessObjectName(name) == [i \in 1..Len(name) |-> QuoteNamePart(name[i])]

\* quoter.rs 263-366, for the three kinds of expression modelled; the argument
\* of the function is an Identifier (384-398)
ProcessExpr(expr) ==
    [expr EXCEPT !.name = ProcessObjectName(expr.name),
                 !.idents = [i \in 1..Len(expr.idents) |-> ForceQuote(expr.idents[i])]]

\* quoter.rs 103-107 and 192-194: an alias is always forced
ProcessAlias(alias) ==
    IF alias.none THEN alias ELSE SomeAlias(ForceQuote(alias.ident))

\* quoter.rs 32-37, 39-81, 97-119, 188-195
ProcessStatement(stmt) ==
    [expr |-> ProcessExpr(stmt.expr),
     alias |-> ProcessAlias(stmt.alias),
     table |-> ProcessObjectName(stmt.table),
     table_alias |-> ProcessAlias(stmt.table_alias)]

QuoteIdle ==
    /\ ast = [expr |-> [kind |-> "Identifier", name |-> <<>>, idents |-> <<Ident("id", "none")>>],
              alias |-> NoAlias, table |-> <<Ident("t", "none")>>, table_alias |-> NoAlias]
    /\ quoted = ast
    /\ quote_pc = "idle"

\* quoter.rs 14-15: the statement as parsed
QuoteStart ==
    /\ ast \in Statements
    /\ quoted = ast
    /\ quote_pc = "parsed"

\* quoter.rs 17-21
QuoteIdentifiers ==
    /\ quote_pc = "parsed"
    /\ quoted' = ProcessStatement(ast)
    /\ quote_pc' = "quoted"
    /\ UNCHANGED ast
    /\ UNCHANGED notQuote

(***************************************************************************)
(* atomic_write (fs.rs 14-35) with a concurrent reader of the target path. *)
(***************************************************************************)
Bytes == {"a", "b"}

Contents == UNION {[1..n -> Bytes] : n \in 0..MaxBytes}

NoFile == [exists |-> FALSE, data |-> <<>>]

File(data) == [exists |-> TRUE, data |-> data]

Files == {NoFile} \cup {File(d) : d \in Contents}

\* fs.rs 25-27: a write call appends bytes to the temporary file
WrittenFilesMut(target, temp, more) ==
    [target |-> File(temp.data \o more), temp |-> File(temp.data \o more)]

WrittenFiles(target, temp, more) ==
    [target |-> target, temp |-> File(temp.data \o more)]

\* fs.rs 30-32: rename(temp, target)
Renamed(target, temp) == [target |-> temp, temp |-> NoFile]

AwIdle ==
    /\ aw_previous = NoFile
    /\ aw_content = <<>>
    /\ target_file = NoFile
    /\ temp_file = NoFile
    /\ observed = NoFile
    /\ aw_pc = "idle"

AwStart ==
    /\ aw_previous \in Files
    /\ aw_content \in Contents
    /\ target_file = aw_previous
    /\ temp_file = NoFile
    /\ observed = aw_previous
    /\ aw_pc = "start"

AwFrame == UNCHANGED <<aw_previous, aw_content>>

\* fs.rs 22: NamedTempFile::new_in(parent), or its io error
CreateTemp ==
    /\ aw_pc = "start"
    /\ \/ /\ temp_file' = File(<<>>)
          /\ aw_pc' = "writing"
       \/ /\ temp_file' = temp_file
          /\ aw_pc' = "failed"
    /\ UNCHANGED <<target_file, observed>>
    /\ AwFrame
    /\ UNCHANGED notAw

\* fs.rs 25-27: write_all is a loop of write calls, each taking at least one byte
WriteSome ==
    /\ aw_pc = "writing"
    /\ \E k \in 1..(Len(aw_content) - Len(temp_file.data)) :
         LET more == SubSeq(aw_content, Len(temp_file.data) + 1, Len(temp_file.data) + k)
             files == WrittenFiles(target_file, temp_file, more)
         IN /\ temp_file' = files.temp
            /\ target_file' = files.target
    /\ UNCHANGED <<observed, aw_pc>>
    /\ AwFrame
    /\ UNCHANGED notAw

\* fs.rs 27: a write call fails; the NamedTempFile is dropped, which removes it
WriteFails ==
    /\ aw_pc = "writing"
    /\ Len(temp_file.data) < Len(aw_content)
    /\ temp_file' = NoFile
    /\ aw_pc' = "failed"
    /\ UNCHANGED <<target_file, observed>>
    /\ AwFrame
    /\ UNCHANGED notAw

\* fs.rs 30-32: persist renames the temporary file over the target in one step,
\* or fails and the temporary file is removed
Persist ==
    /\ aw_pc = "writing"
    /\ temp_file.data = aw_content
    /\ \/ /\ target_file' = Renamed(target_file, temp_file).target
          /\ temp_file' = Renamed(target_file, temp_file).temp
          /\ aw_pc' = "done"
       \/ /\ target_file' = target_file
          /\ temp_file' = NoFile
          /\ aw_pc' = "failed"
    /\ UNCHANGED observed
    /\ AwFrame
    /\ UNCHANGED notAw

\* the process dies between two steps: nothing is cleaned up
Crash ==
    /\ aw_pc \in {"start", "writing"}
    /\ aw_pc' = "crashed"
    /\ UNCHANGED <<target_file, temp_file, observed>>
    /\ AwFrame
    /\ UNCHANGED notAw

\* another process reads the target path
ReadTarget ==
    /\ aw_pc # "idle"
    /\ observed' = target_file
    /\ UNCHANGED <<target_file, temp_file, aw_pc>>
    /\ AwFrame
    /\ UNCHANGED notAw

(***************************************************************************)
(* ZScoreCheck::update_state called value after value (zscore.rs 58-73),   *)
(* starting from no state.                                                 *)
(***************************************************************************)
WelfIdle ==
    /\ wstate = NoState
    /\ wseen = <<>>

WelfStart == WelfIdle

\* zscore.rs 58-73: one more value is ingested
Ingest ==
    /\ Len(wseen) < MaxObs
    /\ \E x \in Observations :
         /\ wstate' = SomeState(UpdateState(x, wstate))
         /\ wseen' = Append(wseen, x)
    /\ UNCHANGED notWelf

(***************************************************************************)
(* Specifications: one per subsystem.                                      *)
(***************************************************************************)
InitDag == DagStart /\ ZIdle /\ MatIdle /\ RwIdle /\ LinIdle /\ PipeIdle /\ RowIdle /\ CompIdle /\ ExecIdle /\ CleanIdle /\ SchemaIdle /\ LifeIdle /\ PlanIdle /\ QuoteIdle /\ AwIdle /\ WelfIdle

NextDag == BuildGraph \/ SeedQueue \/ KahnLayer \/ CycleDetection

SpecDag == InitDag /\ [][NextDag]_vars

InitZ == ZIdle /\ DagIdle /\ MatIdle /\ RwIdle /\ LinIdle /\ PipeIdle /\ RowIdle /\ CompIdle /\ ExecIdle /\ CleanIdle /\ SchemaIdle /\ LifeIdle /\ PlanIdle /\ QuoteIdle /\ AwIdle /\ WelfIdle

NextZ == ValidateAndUpdate

SpecZ == InitZ /\ [][NextZ]_vars

InitMat == MatIdle /\ DagIdle /\ ZIdle /\ RwIdle /\ LinIdle /\ PipeIdle /\ RowIdle /\ CompIdle /\ ExecIdle /\ CleanIdle /\ SchemaIdle /\ LifeIdle /\ PlanIdle /\ QuoteIdle /\ AwIdle /\ WelfIdle

NextMat == Materialize

SpecMat == InitMat /\ [][NextMat]_vars

InitRw == RwStart /\ DagIdle /\ ZIdle /\ MatIdle /\ LinIdle /\ PipeIdle /\ RowIdle /\ CompIdle /\ ExecIdle /\ CleanIdle /\ SchemaIdle /\ LifeIdle /\ PlanIdle /\ QuoteIdle /\ AwIdle /\ WelfIdle

NextRw == ApplyMasking \/ ApplyMaskingAgain

SpecRw == InitRw /\ [][NextRw]_vars

InitLin == LinStart /\ DagIdle /\ ZIdle /\ MatIdle /\ RwIdle /\ PipeIdle /\ RowIdle /\ CompIdle /\ ExecIdle /\ CleanIdle /\ SchemaIdle /\ LifeIdle /\ PlanIdle /\ QuoteIdle /\ AwIdle /\ WelfIdle

NextLin == Analyze

SpecLin == InitLin /\ [][NextLin]_vars

InitPipe == PipeStart /\ DagIdle /\ ZIdle /\ MatIdle /\ RwIdle /\ LinIdle /\ RowIdle /\ CompIdle /\ ExecIdle /\ CleanIdle /\ SchemaIdle /\ LifeIdle /\ PlanIdle /\ QuoteIdle /\ AwIdle /\ WelfIdle

NextPipe ==
    \/ Setup
    \/ PlanLayers
    \/ LayerBegin
    \/ StartTask
    \/ MaterializeNode
    \/ FailNode
    \/ FinishNode
    \/ CollectLayer
    \/ Finalize

SpecPipe == InitPipe /\ [][NextPipe]_vars

InitRow == RowStart /\ DagIdle /\ ZIdle /\ MatIdle /\ RwIdle /\ LinIdle /\ PipeIdle /\ CompIdle /\ ExecIdle /\ CleanIdle /\ SchemaIdle /\ LifeIdle /\ PlanIdle /\ QuoteIdle /\ AwIdle /\ WelfIdle

NextRow == ValidateRowCount

SpecRow == InitRow /\ [][NextRow]_vars

InitComp == CompStart /\ DagIdle /\ ZIdle /\ MatIdle /\ RwIdle /\ LinIdle /\ PipeIdle /\ RowIdle /\ ExecIdle /\ CleanIdle /\ SchemaIdle /\ LifeIdle /\ PlanIdle /\ QuoteIdle /\ AwIdle /\ WelfIdle

NextComp == CheckCompliance

SpecComp == InitComp /\ [][NextComp]_vars

InitExec == ExecStart /\ DagIdle /\ ZIdle /\ MatIdle /\ RwIdle /\ LinIdle /\ PipeIdle /\ RowIdle /\ CompIdle /\ CleanIdle /\ SchemaIdle /\ LifeIdle /\ PlanIdle /\ QuoteIdle /\ AwIdle /\ WelfIdle

NextExec ==
    \/ Render
    \/ WriteCompiled
    \/ ApplyGovernance
    \/ WriteRun
    \/ ExecMaterialize
    \/ RunTests
    \/ ExecCountRows
    \/ ExecCompliance
    \/ InsertState

SpecExec == InitExec /\ [][NextExec]_vars

InitClean == CleanStart /\ DagIdle /\ ZIdle /\ MatIdle /\ RwIdle /\ LinIdle /\ PipeIdle /\ RowIdle /\ CompIdle /\ ExecIdle /\ SchemaIdle /\ LifeIdle /\ PlanIdle /\ QuoteIdle /\ AwIdle /\ WelfIdle

NextClean == LoadTargets \/ CleanTarget \/ CleanReturn

SpecClean == InitClean /\ [][NextClean]_vars

InitSchema == SchemaStart /\ DagIdle /\ ZIdle /\ MatIdle /\ RwIdle /\ LinIdle /\ PipeIdle /\ RowIdle /\ CompIdle /\ ExecIdle /\ CleanIdle /\ LifeIdle /\ PlanIdle /\ QuoteIdle /\ AwIdle /\ WelfIdle

NextSchema == CreateVersionedModel

SpecSchema == InitSchema /\ [][NextSchema]_vars

InitLife == LifeStart /\ DagIdle /\ ZIdle /\ MatIdle /\ RwIdle /\ LinIdle /\ PipeIdle /\ RowIdle /\ CompIdle /\ ExecIdle /\ CleanIdle /\ SchemaIdle /\ PlanIdle /\ QuoteIdle /\ AwIdle /\ WelfIdle

NextLife == Transition

SpecLife == InitLife /\ [][NextLife]_vars

InitPlan == PlanStart /\ DagIdle /\ ZIdle /\ MatIdle /\ RwIdle /\ LinIdle /\ PipeIdle /\ RowIdle /\ CompIdle /\ ExecIdle /\ CleanIdle /\ SchemaIdle /\ LifeIdle /\ QuoteIdle /\ AwIdle /\ WelfIdle

NextPlan == BuildPolicySet \/ AnalyzePlan

SpecPlan == InitPlan /\ [][NextPlan]_vars

InitQuote == QuoteStart /\ DagIdle /\ ZIdle /\ MatIdle /\ RwIdle /\ LinIdle /\ PipeIdle /\ RowIdle /\ CompIdle /\ ExecIdle /\ CleanIdle /\ SchemaIdle /\ LifeIdle /\ PlanIdle /\ AwIdle /\ WelfIdle

NextQuote == QuoteIdentifiers

SpecQuote == InitQuote /\ [][NextQuote]_vars

InitAw == AwStart /\ DagIdle /\ ZIdle /\ MatIdle /\ RwIdle /\ LinIdle /\ PipeIdle /\ RowIdle /\ CompIdle /\ ExecIdle /\ CleanIdle /\ SchemaIdle /\ LifeIdle /\ PlanIdle /\ QuoteIdle /\ WelfIdle

NextAw == CreateTemp \/ WriteSome \/ WriteFails \/ Persist \/ Crash \/ ReadTarget

SpecAw == InitAw /\ [][NextAw]_vars

InitWelf == WelfStart /\ DagIdle /\ ZIdle /\ MatIdle /\ RwIdle /\ LinIdle /\ PipeIdle /\ RowIdle /\ CompIdle /\ ExecIdle /\ CleanIdle /\ SchemaIdle /\ LifeIdle /\ PlanIdle /\ QuoteIdle /\ AwIdle

NextWelf == Ingest

SpecWelf == InitWelf /\ [][NextWelf]_vars

(***************************************************************************)
(* Properties of plan_execution.                                           *)
(***************************************************************************)
\* the ref graph of the manifest: R -> N when node N refs R
Edge(R, N) == N \in NodeNames /\ Contains(refs[N], R)

HasDangling == \E n \in NodeNames : \E i \in 1..Len(refs[n]) : refs[n][i] \notin NodeNames

RECURSIVE Descendants(_)
Descendants(S) ==
    LET nxt == S \cup {n \in NodeNames : \E r \in S : Edge(r, n)}
    IN IF nxt = S THEN S ELSE Descendants(nxt)

\* n lies on a cycle when it is reachable from one of its direct children
HasCycle == \E n \in NodeNames : n \in Descendants({m \in NodeNames : Edge(n, m)})

LayerIdx(n, ls) == {i \in 1..Len(ls) : Contains(ls[i], n)}

Occurrences(n, s) == Cardinality({i \in 1..Len(s) : s[i] = n})

\* C1: for a manifest with no cycle and no dangling ref, plan_execution returns
\* layers, and for every edge R -> N every layer holding R comes strictly
\* before every layer holding N.
C1_Soundness ==
    (dagpc = "done" /\ ~HasCycle /\ ~HasDangling) =>
        /\ dagres.kind = "Ok"
        /\ \A N \in NodeNames : \A R \in NodeNames :
             Edge(R, N) =>
                /\ LayerIdx(R, dagres.layers) # {}
                /\ LayerIdx(N, dagres.layers) # {}
                /\ \A i \in LayerIdx(R, dagres.layers), j \in LayerIdx(N, dagres.layers) : i < j

\* a linear chain of three nodes was planned into three layers
C1_Witness ==
    /\ dagpc = "done" /\ dagres.kind = "Ok"
    /\ \E x, y, z \in NodeNames : x # y /\ y # z /\ x # z /\ Edge(x, y) /\ Edge(y, z)
    /\ Len(dagres.layers) = 3

\* C6: a manifest whose ref graph has a cycle (a self-ref included) and no
\* dangling ref makes plan_execution return CircularDependency, never layers.
C6_CycleDetected ==
    (dagpc = "done" /\ HasCycle /\ ~HasDangling) =>
        (dagres.kind = "Err" /\ dagres.msg = "Graph contains a cycle" /\ dagres.layers = <<>>)

\* a node that refs itself, beside nodes that were resolved, was rejected
C6_Witness ==
    /\ dagpc = "done" /\ dagres.kind = "Err" /\ ~HasDangling
    /\ \E n \in NodeNames : Edge(n, n)
    /\ total_resolved > 0

\* C7: a ref to a name that is not a node fails with CircularDependency carrying
\* "Dangling Reference" during graph construction: no queue, no layer and no
\* resolved node exists at any point, whatever else the manifest contains.
C7_DanglingRef ==
    HasDangling =>
        /\ dagpc \in {"build", "done"}
        /\ queue = <<>> /\ layers = <<>> /\ total_resolved = 0
        /\ dagpc = "done" => dagres = ErrCircular("Dangling Reference")

\* a manifest with both a dangling ref and a cycle was rejected as dangling
C7_Witness ==
    /\ dagpc = "done" /\ HasDangling /\ HasCycle
    /\ dagres.msg = "Dangling Reference"

\* C8: when plan_execution succeeds every node occurs exactly once in the
\* concatenation of the layers (none missing, none twice), duplicate refs or not.
C8_Completeness ==
    (dagpc = "done" /\ dagres.kind = "Ok") =>
        \A n \in NodeNames : Occurrences(n, Flatten(dagres.layers)) = 1

\* a manifest in which a node lists the same ref twice was planned
C8_Witness ==
    /\ dagpc = "done" /\ dagres.kind = "Ok"
    /\ \E n \in NodeNames : \E i, j \in 1..Len(refs[n]) : i # j /\ refs[n][i] = refs[n][j]
    /\ Len(dagres.layers) = 2

(***************************************************************************)
(* Properties of ZScoreCheck.                                              *)
(***************************************************************************)
\* C3: whenever validate_and_update reports AnomalyDetected, the state it
\* returns is the state that was passed in (same mean, variance and count).
C3_CircuitBreaker ==
    zres = "AnomalyDetected" => (~zprev.none /\ zstate = zprev)

\* an outlier was rejected against a history of at least two observations
C3_Witness ==
    /\ zres = "AnomalyDetected"
    /\ zstate.st.count >= 2
    /\ zx = 20

(***************************************************************************)
(* Properties of Materializer::materialize.                                *)
(***************************************************************************)
Destructive(query) == query[1] \in {"CREATE OR REPLACE TABLE ", "CREATE OR REPLACE VIEW "}
IfNotExists(query) == query[1] \in {"CREATE TABLE IF NOT EXISTS ", "CREATE VIEW IF NOT EXISTS "}

\* C4: for every materialization kind, materialize on a protected node sends
\* the connector only CREATE TABLE / CREATE VIEW ... IF NOT EXISTS, never a
\* CREATE OR REPLACE or a DROP.
C4_ProtectedNeverDestructive ==
    \A i \in 1..Len(executed) :
        executed[i].protected => (IfNotExists(executed[i].query) /\ ~Destructive(executed[i].query))

(***************************************************************************)
(* Properties of PolicyRewriter::apply_masking.                            *)
(***************************************************************************)
Rewritten == rwout # NotRewritten
HasPolicies == \E i \in 1..Len(rwcols) : rwcols[i].policy # "None"

\* a projection that is nothing but the column's name
BareRef(item, name) == item = <<name>>
\* a projection that reads or names the column
Mentions(item, name) == \E k \in 1..Len(item) : item[k] = name
AliasedTo(item, name) == Len(item) >= 2 /\ item[Len(item)] = name

\* C9: when some declared column has a policy, the outermost SELECT has no bare
\* reference to a Masking(_) or Encryption column (it occurs only in items
\* aliased to its own name) and no projection at all for a Drop column.
C9_MaskingNeverLeaks ==
    (Rewritten /\ HasPolicies) =>
        /\ rwout.wrapped
        /\ \A i \in 1..Len(rwcols) :
             /\ rwcols[i].policy \in MaskingStrategies \cup {"Encryption"} =>
                  \A k \in 1..Len(rwout.select) :
                       /\ ~BareRef(rwout.select[k], rwcols[i].name)
                       /\ Mentions(rwout.select[k], rwcols[i].name) =>
                              AliasedTo(rwout.select[k], rwcols[i].name)
             /\ rwcols[i].policy = "Drop" =>
                  \A k \in 1..Len(rwout.select) : ~Mentions(rwout.select[k], rwcols[i].name)

(***************************************************************************)
(* Properties of LineageAnalyzer::analyze.                                 *)
(***************************************************************************)
\* node n refs the existing node p
LinEdge(p, n) == p \in NodeNames /\ Contains(lman.refs[n], p)

RECURSIVE LinDescendants(_)
LinDescendants(S) ==
    LET nxt == S \cup {n \in NodeNames : \E r \in S : LinEdge(r, n)}
    IN IF nxt = S THEN S ELSE LinDescendants(nxt)

\* the nodes that depend on p, directly or through a chain of refs
Dependents(p) == LinDescendants({n \in NodeNames : LinEdge(p, n)})

MaskedColumns(p) ==
    {lman.columns[p][i].name : i \in {j \in 1..Len(lman.columns[p]) :
                                        lman.columns[p][j].policy \in MaskingStrategies}}

HasUnprotected(n, col_name) ==
    \E i \in 1..Len(lman.columns[n]) :
        lman.columns[n][i].name = col_name /\ lman.columns[n][i].policy = "None"

\* the first column of that name in n, if any, has no policy
FirstUnprotected(n, col_name) ==
    \E i \in 1..Len(lman.columns[n]) :
        /\ lman.columns[n][i].name = col_name /\ lman.columns[n][i].policy = "None"
        /\ \A j \in 1..(i - 1) : lman.columns[n][j].name # col_name

NoViolationReported == lreport.done /\ lreport.violations = <<>>

PolicyColumns(p) ==
    {lman.columns[p][i].name : i \in {j \in 1..Len(lman.columns[p]) :
                                        lman.columns[p][j].policy # "None"}}

HasColumn(n, col_name) ==
    \E i \in 1..Len(lman.columns[n]) : lman.columns[n][i].name = col_name

\* the violations recorded for the edge p -> n and the column
ViolationCount(p, n, col_name) ==
    Cardinality({i \in 1..Len(lreport.violations) :
                    /\ lreport.violations[i].column = col_name
                    /\ lreport.violations[i].upstream_node = p
                    /\ lreport.violations[i].downstream_node = n})

\* C11: for every edge parent -> child (two distinct nodes, the child naming
\* the parent once) and every parent column that carries a policy, analyze
\* records exactly one violation for that edge and column when the child has
\* a column of the same name without a policy, and none when the child's
\* column of that name carries a policy.
C11_OneViolationPerEdgeColumn ==
    lreport.done =>
        \A p \in NodeNames, n \in NodeNames :
            (p # n /\ Occurrences(p, lman.refs[n]) = 1) =>
                \A c \in PolicyColumns(p) :
                    /\ HasUnprotected(n, c) => ViolationCount(p, n, c) = 1
                    /\ (HasColumn(n, c) /\ ~HasUnprotected(n, c)) => ViolationCount(p, n, c) = 0

\* C12: analyze records a violation with column "*" for parent -> child exactly
\* when the child refs the parent and child.security_level is below
\* parent.security_level, whatever the column policies of either node; an
\* equal or higher child level records none.
C12_DowngradeViolation ==
    lreport.done =>
        \A p \in NodeNames, n \in NodeNames :
            (LinEdge(p, n) /\ lman.level[n] < lman.level[p]) <=> ViolationCount(p, n, "*") >= 1

\* a child below its parent secures every policy column of the parent and is
\* still reported, while an edge to a higher child is not
C12_Witness ==
    /\ lreport.done
    /\ \E p \in NodeNames, n \in NodeNames :
         /\ p # n /\ LinEdge(p, n) /\ lman.level[n] < lman.level[p]
         /\ PolicyColumns(p) # {}
         /\ \A c \in PolicyColumns(p) : HasColumn(n, c) /\ ~HasUnprotected(n, c)
         /\ ViolationCount(p, n, "*") = 1
    /\ \E p \in NodeNames, n \in NodeNames :
         /\ LinEdge(p, n) /\ lman.level[n] > lman.level[p]
         /\ ViolationCount(p, n, "*") = 0

(***************************************************************************)
(* Properties of run_pipeline.                                             *)
(***************************************************************************)
\* execute_node was entered for n
Executing(n) == task[n] \in {"running", "materialized", "ok", "err"}

\* the future of n has returned
Returned(n) == task[n] \in {"ok", "err", "skipped"}

\* the future of n has returned without an error
Completed(n) == task[n] \in {"ok", "skipped"}

\* m is in a layer of layers_to_run before a layer of n
LayerBefore(m, n) ==
    \E i \in LayerIdx(m, layers_to_run), j \in LayerIdx(n, layers_to_run) : i < j

\* no node executes before every node of the earlier layers has returned
LayersInOrder ==
    \A n, m \in NodeNames : (Executing(n) /\ LayerBefore(m, n)) => Returned(m)

\* a node executes only after every node it refs has completed, and the
\* store then holds what the Model nodes among them wrote
RefsCompleted ==
    \A n \in NodeNames : Executing(n) =>
        \A i \in 1..Len(manifest.refs[n]) :
            LET r == manifest.refs[n][i]
            IN /\ r \in NodeNames
               /\ Completed(r)
               /\ manifest.resource_type[r] = "Model" => r \in store

\* C2 (as claimed): during run_pipeline no node of layer N+1 starts executing
\* before every node of layer N has finished, and a node starts only after
\* every node it refs has completed and it observes the store state they left.
C2_LayerBarrier == LayersInOrder /\ RefsCompleted

\* C2 (amended): the layers run in order in every run; a node starts only after
\* every node it refs has completed, observing their store state, in the runs
\* without --select.
C2_LayerBarrierWithoutSelect == LayersInOrder /\ (select.none => RefsCompleted)

\* a node of the second layer is executing after the node it refs returned Ok
C2_Witness ==
    /\ select.none
    /\ \E n, r \in NodeNames :
         /\ task[n] = "running"
         /\ Contains(manifest.refs[n], r)
         /\ task[r] = "ok"
         /\ LayerBefore(r, n)

\* C5: once a node has failed no node of a later layer is ever started, the
\* futures of the failed layer all return (Ok or Err) before run_pipeline
\* does, and run_pipeline returns an error, never a success result.
C5_FailFast ==
    /\ \A n, m \in NodeNames : (task[n] = "err" /\ LayerBefore(n, m)) => task[m] = "pending"
    /\ pipe_pc = "done" => \A n \in NodeNames : ~InFlight(task[n])
    /\ (\E n \in NodeNames : task[n] = "err") => run_result.kind # "Ok"
    /\ (pipe_pc = "done" /\ \E n \in NodeNames : task[n] = "err") => run_result.kind = "Err"

\* run_pipeline returned: one node failed, a node of the same layer returned Ok
\* after that failure, and a node of the next layer was never started
C5_Witness ==
    /\ pipe_pc = "done"
    /\ run_result.kind = "Err"
    /\ \E i, j \in 1..Len(results) :
         /\ i < j
         /\ results[i].res = "Err"
         /\ results[j].res = "Ok"
         /\ \E k \in NodeNames : LayerBefore(results[i].node, k) /\ task[k] = "pending"

(***************************************************************************)
(* Properties of RowCountCheck::validate.                                  *)
(***************************************************************************)
\* |current - previous| / previous > threshold, on the counts themselves
TrueDeviationExceeds ==
    /\ ~previous_count.none
    /\ previous_count.v > 0
    /\ Abs(current_count - previous_count.v) * row_threshold.den > row_threshold.num * previous_count.v

\* C14: validate reports DeviationExceeded exactly when a previous count
\* exists, is greater than 0 and |current - previous| / previous is strictly
\* greater than the threshold; a deviation equal to the threshold, a previous
\* count of 0 or no previous count never reports a deviation.
C14_DeviationExactlyAboveThreshold ==
    rowres # "none" => (rowres = "DeviationExceeded" <=> TrueDeviationExceeds)

(***************************************************************************)
(* Properties of check_compliance.                                         *)
(***************************************************************************)
PostFlightChecks == IF compliance.none \/ compliance.post_flight_none THEN <<>>
                    ELSE compliance.post_flight

\* the i-th post-flight check is a row_count_anomaly check over its threshold
ExceedsThreshold(i) ==
    /\ PostFlightChecks[i].check = "row_count_anomaly"
    /\ RowCountValidate(current_rows, prev_rows, ThresholdVal(PostFlightChecks[i]),
                        comp_overflow) = "DeviationExceeded"

Logged(kind, i) == \E k \in 1..Len(complog) : complog[k] = [kind |-> kind, check |-> i]

\* C13: check_compliance fails with ComplianceError exactly when some
\* row_count_anomaly check exceeds its threshold with severity error while
\* strict mode is on; with strict mode off such a check is logged as a bypass
\* and the call succeeds; an exceeding check of another severity never fails
\* the node and is logged as a warning when the call succeeds.
C13_SeverityRouting ==
    compres # "none" =>
        /\ compres = "ComplianceError" <=>
             (strict_mode /\ \E i \in 1..Len(PostFlightChecks) :
                 ExceedsThreshold(i) /\ PostFlightChecks[i].severity = "error")
        /\ \A i \in 1..Len(PostFlightChecks) :
             (ExceedsThreshold(i) /\ PostFlightChecks[i].severity = "error" /\ ~strict_mode)
                 => (compres = "Ok" /\ Logged("bypass", i))
        /\ \A i \in 1..Len(PostFlightChecks) :
             (ExceedsThreshold(i) /\ PostFlightChecks[i].severity # "error")
                 => /\ ~Logged("strict", i)
                    /\ compres = "Ok" => Logged("warning", i)

\* in strict mode a warning-severity anomaly was logged and passed, then an
\* error-severity anomaly failed the node
C13_Witness ==
    /\ compres = "ComplianceError"
    /\ strict_mode
    /\ Len(PostFlightChecks) = 2
    /\ ExceedsThreshold(1) /\ PostFlightChecks[1].severity = "warning"
    /\ Logged("warning", 1)
    /\ ExceedsThreshold(2) /\ PostFlightChecks[2].severity = "error"
    /\ Logged("strict", 2)

(***************************************************************************)
(* Properties of the state store of run_pipeline.                          *)
(***************************************************************************)
\* the entry of n is in state.json
Persisted(n) == state_saved /\ state_file[n] = "new"

\* C15: the state entries are written to the persisted state store after each
\* layer whose nodes completed successfully: the entry of a node of an
\* already completed layer is persisted when a node of a later layer fails.
C15_StatePersistedPerLayer ==
    \A n \in NodeNames, f \in NodeNames :
        (task[n] = "ok" /\ task[f] = "err" /\ LayerBefore(n, f)) => Persisted(n)

(***************************************************************************)
(* Properties of execute_node.                                             *)
(***************************************************************************)
\* C16: the row count that execute_node compares against the anomaly
\* threshold, returns, and that is stored in the state is the value the
\* connector's query_scalar returns for the count of the relation.
C16_RowCountFromConnector ==
    /\ exec_pc \in {"compliance", "returned", "stored"} /\ exec_res.kind # "Err"
         => (Contains(exec_effects, "count_rows") => exec_rows = connector_rows)
    /\ exec_res.kind = "Ok" => exec_res.rows = connector_rows
    /\ exec_pc = "stored" => exec_stored = SomeCount(connector_rows)

(***************************************************************************)
(* Properties of clean_project.                                            *)
(***************************************************************************)
\* where the target is on the file system
ResolvedTarget(t) == Resolve(<<>>, Join(ProjectDir, t))

InsideRoot(p) == StartsWith(p, ProjectDir)

\* C17: clean_project never deletes anything outside the project root: a
\* target that resolves outside the root, as an absolute path elsewhere or a
\* relative path escaping through `..`, is refused with UnsafePath: the loop
\* never goes past it and the call does not succeed.
C17_CleanStaysInRoot ==
    /\ \A p \in removed : InsideRoot(p)
    /\ \A i \in 1..Len(targets) :
         ~InsideRoot(ResolvedTarget(targets[i])) =>
            /\ target_i <= i
            /\ clean_res # "Ok"

(***************************************************************************)
(* Properties of create_versioned_model and of LifecycleStatus.            *)
(***************************************************************************)
\* the family of a base name: base, base_v0, base_v2, base_v3, ...
InFamily(model_name, base_name) ==
    \/ model_name = base_name
    \/ \E d \in 1..Len(Digits) : model_name = base_name \o <<"_v", Digits[d]>>

\* the places in the schema file of the models of a family
FamilyModels(base_name) ==
    {i \in 1..Len(schema_file) : InFamily(schema_file[i].model_name, base_name)}

ActiveModels(base_name) ==
    {i \in FamilyModels(base_name) : schema_file[i].status = "Active"}

\* C18: after any sequence of create_versioned_model calls on a schema file,
\* at most one model of a family (base, base_v2, ...) has status Active.
C18_AtMostOneActive ==
    \A base_name \in BaseNames : Cardinality(ActiveModels(base_name)) <= 1

FamilyVersions(base_name) ==
    {schema_file[i].version : i \in FamilyModels(base_name)}

\* the versions of the family before the last call: a successful call appended one model
VersionsBefore(base_name) ==
    IF schema_res = "Ok"
    THEN {schema_file[i].version : i \in FamilyModels(base_name) \ {Len(schema_file)}}
    ELSE FamilyVersions(base_name)

\* C19: create_versioned_model fails when version v > 1 is requested and v-1
\* is not in the family, and when v is already there; so, starting from an
\* empty schema file, the versions of a family are always a contiguous run
\* without gap or duplicate.
C19_ContiguousVersions ==
    /\ schema_call.called =>
         LET v == schema_call.target_version
             before == VersionsBefore(schema_call.base_name)
         IN /\ (v > 1 /\ (v - 1) \notin before) => schema_res # "Ok"
            /\ v \in before => schema_res # "Ok"
    /\ \A base_name \in BaseNames :
         LET vs == FamilyVersions(base_name)
         IN /\ Cardinality(vs) = Cardinality(FamilyModels(base_name))
            /\ \A lo \in vs, hi \in vs, v \in Versions : (lo < v /\ v < hi) => v \in vs

\* the place of a status in Provisioning, Active, Deprecated, Erased
Stage(s) == CHOOSE i \in 1..Len(LifecycleOrder) : LifecycleOrder[i] = s

\* C20: can_transition_to(s, n) holds exactly when n is s or the stage right
\* after s; so along a chain of allowed transitions a status never moves
\* backward, never skips a stage, and Erased stays Erased.
C20_LifecycleTransitions ==
    /\ last_try.asked =>
         (last_try.allowed <=>
            \/ last_try.from = last_try.to
            \/ <<last_try.from, last_try.to>> \in
                 {<<"Provisioning", "Active">>, <<"Active", "Deprecated">>,
                  <<"Deprecated", "Erased">>})
    /\ \A i \in 1..(Len(chain) - 1) :
         /\ Stage(chain[i + 1]) >= Stage(chain[i])
         /\ Stage(chain[i + 1]) <= Stage(chain[i]) + 1
         /\ chain[i] = "Erased" => chain[i + 1] = "Erased"

\* the whole life of a model was walked and a way back from Erased was refused
C20_Witness ==
    /\ Len(chain) >= Len(LifecycleOrder)
    /\ SubSeq(chain, 1, Len(LifecycleOrder)) = LifecycleOrder
    /\ last_try.asked
    /\ last_try.from = "Erased"
    /\ last_try.to = "Active"
    /\ ~last_try.allowed

(***************************************************************************)
(* Properties of the plan-level governance rule.                           *)
(***************************************************************************)
\* the plan expression does what the string rewriter's expression does: the
\* same text, or the engine's digest where the string form has encode(sha256)
SameMasking(string_expr, plan_expr) ==
    \/ string_expr = plan_expr
    \/ /\ Len(string_expr) = 4
       /\ string_expr[1] = "encode(sha256(CAST("
       /\ string_expr[3] = " AS VARCHAR)), 'hex') AS "
       /\ plan_expr = <<"digest(CAST(", string_expr[2], " AS Utf8), 'sha256')", " AS ",
                        string_expr[4]>>

\* C21: for every policy a column can carry, the policy set built by
\* from_pairs keeps an entry for the column and the plan rule applies the
\* expression equivalent to the string rewriter's; a Drop column is projected
\* by neither path.
C21_PlanMasksLikeString ==
    plan_pc = "done" =>
      \A i \in 1..Len(plan_columns) :
        LET col == plan_columns[i] IN
        col.policy # "None" =>
          /\ column_policies[ToLowercase(col.name)] # "Absent"
          /\ col.policy # "Drop" => SameMasking(ColumnExpr(col), plan_exprs[i])
          /\ col.policy = "Drop" => plan_exprs[i] = <<>>

(***************************************************************************)
(* Properties of a repeated apply_masking.                                 *)
(***************************************************************************)
RewrittenAgain == rwagain # NotRewritten

\* C22 as claimed: apply_masking is idempotent; applied to its own output it
\* returns that output, with or without policies.
C22_Idempotent == RewrittenAgain => rwagain = rwout

\* C22 as amended: without a policy the output is the input on every
\* application; with a policy every application wraps its input once more in
\* the same projection, so the second output is the first one wrapped again.
C22_IdempotentWithoutPolicy ==
    /\ (Rewritten /\ ~HasPolicies) => rwout = [wrapped |-> FALSE, sql |-> <<"sql">>]
    /\ RewrittenAgain =>
         IF HasPolicies
         THEN /\ rwout.wrapped
              /\ rwout.cte = <<"sql">>
              /\ rwagain.wrapped
              /\ rwagain.cte = SqlOf(rwout)
              /\ Len(rwagain.cte) > Len(rwout.cte)
              /\ rwagain.select = rwout.select
              /\ rwagain.limit0 = rwout.limit0
         ELSE rwagain = rwout

C22_Witness ==
    /\ RewrittenAgain
    /\ HasPolicies
    /\ \E i \in 1..Len(rwcols) : rwcols[i].policy = "None"
    /\ rwagain.cte = SqlOf(rwout)
    /\ rwagain # rwout

(***************************************************************************)
(* Properties of the identifier quoter.                                    *)
(***************************************************************************)
\* every identifier of a statement, by place: expression, function name,
\* alias, table name, table alias
IdentsOf(stmt) ==
    [i \in 1..Len(stmt.expr.idents) |-> stmt.expr.idents[i]]
    \o [i \in 1..Len(stmt.expr.name) |-> stmt.expr.name[i]]
    \o (IF stmt.alias.none THEN <<>> ELSE <<stmt.alias.ident>>)
    \o stmt.table
    \o (IF stmt.table_alias.none THEN <<>> ELSE <<stmt.table_alias.ident>>)

\* C23: quote_identifiers leaves every identifier that is already quoted in
\* the input as it was, same name and same quote character, wherever it occurs.
C23_QuotedUntouched ==
    quote_pc = "quoted" =>
      \A i \in 1..Len(IdentsOf(ast)) :
        IdentsOf(ast)[i].quote_style # "none" => IdentsOf(quoted)[i] = IdentsOf(ast)[i]

(***************************************************************************)
(* Properties of atomic_write.                                             *)
(***************************************************************************)
\* C24: at every point of atomic_write, failures and a crash between its
\* steps included, the target path holds the complete previous content or the
\* complete new content, and a concurrent reader never reads anything else.
C24_NoPartialWrite ==
    /\ target_file \in {aw_previous, File(aw_content)}
    /\ observed \in {aw_previous, File(aw_content)}
    /\ aw_pc = "done" => target_file = File(aw_content)
    /\ aw_pc \in {"failed", "crashed"} => target_file = aw_previous

\* the process died with half of the content written, and the reader still
\* sees the previous file
C24_Witness ==
    /\ aw_pc = "crashed"
    /\ temp_file.exists
    /\ temp_file.data # <<>>
    /\ temp_file.data # aw_content
    /\ aw_previous.exists
    /\ aw_previous # File(aw_content)
    /\ observed = aw_previous

(***************************************************************************)
(* Properties of update_state.                                             *)
(***************************************************************************)
RECURSIVE SumOf(_)
SumOf(xs) == IF xs = <<>> THEN 0 ELSE Head(xs) + SumOf(Tail(xs))

RECURSIVE SumOfSquares(_)
SumOfSquares(xs) == IF xs = <<>> THEN 0 ELSE Head(xs) * Head(xs) + SumOfSquares(Tail(xs))

\* the population mean and variance of a non-empty sequence, in closed form
PopulationMean(xs) == Rat(SumOf(xs), Len(xs))

PopulationVariance(xs) ==
    Rat(Len(xs) * SumOfSquares(xs) - SumOf(xs) * SumOf(xs), Len(xs) * Len(xs))

C26_FirstTwoAccepted ==
    (zres # "none" /\ UnwrapOrDefault(zprev).count < 2) =>
      /\ zres = "NotEnoughHistory"
      /\ ~zstate.none
      /\ zstate.st.count = UnwrapOrDefault(zprev).count + 1
      /\ zstate.st = UpdateState(zx, zprev)

\* the second observation is far from the first and is ingested all the same
C26_Witness ==
    /\ zres = "NotEnoughHistory"
    /\ ~zprev.none
    /\ zprev.st.count = 1
    /\ zprev.st.mean = RInt(0)
    /\ zx = 20
    /\ zstate.st.count = 2

\* the steps of execute_node, in the order of the code
ExecOrder ==
    <<"render", "compiled.sql", "apply_masking", "run.sql", "materialize", "run_tests",
      "count_rows", "check_compliance">>

\* C27: for an executed node materialize, validate, row count and post-flight
\* compliance happen in that order, the state entry of the node is replaced
\* only after all of them succeeded, and a node that fails at any step leaves
\* its previous entry as it was.
C27_StoredAfterAllSteps ==
    /\ Len(exec_effects) <= Len(ExecOrder)
    /\ exec_effects = SubSeq(ExecOrder, 1, Len(exec_effects))
    /\ exec_pc = "stored" =>
         /\ exec_effects = ExecOrder
         /\ exec_res.kind = "Ok"
         /\ exec_stored = SomeCount(exec_res.rows)
    /\ exec_pc # "stored" => exec_stored = exec_prev
    /\ exec_res.kind \in {"Err", "Panic"} => exec_pc = "returned"

\* a node is stored over an older entry of another row count
C27_Witness ==
    /\ exec_pc = "stored"
    /\ ~exec_prev.none
    /\ exec_stored # exec_prev
    /\ ~exec_compliance.none

C29_DifferenceNeverOverflows ==
    (rowres # "none" /\ ~previous_count.none /\ previous_count.v > 0) =>
        /\ rowres # "Panic"
        /\ SignedDiff(current_count, previous_count.v, overflow_checks)
             = [panic |-> FALSE, v |-> Abs(current_count - previous_count.v)]

\* the last call rejected its value
Rejected == zres = "AnomalyDetected"

\* C30: once validate_and_update has rejected a value as anomalous against a
\* state, every later submission of that value, and every value anomalous
\* against that state, hence every sequence of such values, is rejected as
\* well and the state stays identical.
C30_RejectionIsSticky ==
    [][ /\ (Rejected /\ zx' = zx /\ zthreshold' = zthreshold)
          => (Rejected' /\ zstate' = zstate)
        /\ (Rejected /\ ValidateOpt(zx', zstate, zthreshold') = "AnomalyDetected")
          => (Rejected' /\ zstate' = zstate) ]_vars

\* the same value was rejected twice in a row against the same state
C30_Witness ==
    /\ Rejected
    /\ zbefore = Call(zx, zthreshold, "AnomalyDetected")
    /\ zstate = zprev
    /\ zstate.st.count >= 2

====
